---- MODULE Spec2Model ----
(***************************************************************************)
(* A model of gorsync: the transfer engine (pkg/transfer), the peer client *)
(* and listener (pkg/net) and the sync orchestrator (pkg/sync).            *)
(*                                                                         *)
(* File contents are sequences of chunks.  One chunk stands for the bytes  *)
(* one 64 KiB buffer read returns, so sizes and offsets are counted in     *)
(* chunks.  BlockSize and MinParallelSize are equal in the source (1 MiB); *)
(* here both are 2 chunks, which keeps "one block = several buffer reads"  *)
(* and "size > MinParallelSize <=> more than one block".                   *)
(***************************************************************************)
EXTENDS Integers, Sequences, FiniteSets, TLC

\* ------------------------------------------------------------ bounds
\* Largest file, in chunks.
MaxSize == 3
\* Most bytes past the JSON value that one json.Decoder.Decode call may take
\* from the connection into its own buffer.
MaxReadAhead == 3

\* Largest file handed to the block diff, in chunks.
MaxDiffSize == 5
\* Largest file whose split into block ranges is computed, in chunks.
MaxSplitSize == 7
\* Servers the export shim creates.
MaxInstances == 3
\* Calls of StartServer.
MaxStartCalls == 4
\* Connections the Listener accepts.
MaxConns == 1
\* Accept errors the Listener's loop goes through.
MaxAcceptErrors == 2

\* ------------------------------------------------- program constants
BlockSize == 2
MinParallelSize == 2
\* Chunks one Read call returns at most (the 64 KiB buffer).
BufferSize == 1
\* The newline byte: json.Encoder ends each message with one, and the
\* Listener writes one more as the framing sentinel.
NL == 10

\* ------------------------------------------------------------ values
\* A path that holds no file (no content is <<-1>>: -1 is no byte).
NoFile == <<-1>>
\* What a hole of a sparse write or a Truncate-extended file reads as.
Zero == 0
DataBytes == {1, 2}
Contents == UNION {[1..n -> DataBytes] : n \in 0..MaxSize}
\* A FileInfo without MD5 (the field is empty after a failed hash).
NoHash == <<>>

Min(a, b) == IF a < b THEN a ELSE b
Max(a, b) == IF a > b THEN a ELSE b

\* The whole-file digest.  MD5 is modelled as collision free: the digest of
\* a content is the content itself, tagged; a missing file has no digest.
CalculateMD5(c) == <<"md5", c>>

\* Bytes [from+1 .. from+n] of content c, clipped at its end (a Read of n
\* bytes at offset from).
ReadAtStart(c, from, n) ==
    IF from >= Len(c) THEN <<>>
    ELSE SubSeq(c, 1, Min(Len(c), n))

ReadAt(c, from, n) ==
    IF from >= Len(c) THEN <<>>
    ELSE SubSeq(c, from + 1, Min(Len(c), from + n))

\* Content c after writing data at offset pos: a write past the end extends
\* the file and leaves a zero-filled hole.
WriteAt(c, pos, data) ==
    LET newLen == Max(Len(c), pos + Len(data))
    IN [i \in 1..newLen |->
          IF i > pos /\ i <= pos + Len(data) THEN data[i - pos]
          ELSE IF i <= Len(c) THEN c[i]
          ELSE Zero]

\* ----------------------------------------------------- block diff engine
CeilDiv(a, b) == (a + b - 1) \div b

\* diff.CalculateFileBlocks: consecutive reads of BlockSize bytes, one
\* FileBlock per non-empty read.
RECURSIVE BlocksFrom(_, _)
BlocksFrom(c, index) ==
    LET chunk == ReadAt(c, index * BlockSize, BlockSize)
    IN IF Len(chunk) = 0 THEN <<>>
       ELSE <<[Index |-> index, Hash |-> CalculateMD5(chunk), Size |-> Len(chunk)]>>
            \o BlocksFrom(c, index + 1)

CalculateFileBlocksWholeOnly(c) ==
    BlocksFrom(SubSeq(c, 1, (Len(c) \div BlockSize) * BlockSize), 0)

CalculateFileBlocks(c) == BlocksFrom(c, 0)

\* diff.FindDifferentBlocks: the source indices that the destination lacks
\* or holds with another hash, in source order.
FindDifferentBlocksByPresence(sourceBlocks, destBlocks) ==
    LET present == {destBlocks[k].Index : k \in DOMAIN destBlocks}
        differs(b) == b.Index \notin present
        sel == SelectSeq(sourceBlocks, differs)
    IN [k \in DOMAIN sel |-> sel[k].Index]

FindDifferentBlocks(sourceBlocks, destBlocks) ==
    LET destBlockMap == [i \in {destBlocks[k].Index : k \in DOMAIN destBlocks} |->
                            destBlocks[CHOOSE k \in DOMAIN destBlocks :
                                /\ destBlocks[k].Index = i
                                /\ \A m \in DOMAIN destBlocks :
                                      destBlocks[m].Index = i => m <= k].Hash]
        differs(b) == \/ b.Index \notin DOMAIN destBlockMap
                      \/ destBlockMap[b.Index] # b.Hash
        sel == SelectSeq(sourceBlocks, differs)
    IN [k \in DOMAIN sel |-> sel[k].Index]

\* ------------------------------------------------------------ state
\* The transfer engine and the client, one call at a time.
VARIABLES
    op,          \* the call under way: "copy" (transfer.CopyFile) or "get" (Client.GetFile)
    fs,          \* path -> content or NoFile: "source" (for "get": the file on the
                 \* Listener's disk), "dest", "temp", "origtmp"
    destBefore,  \* fs["dest"] when the call started
    pc,          \* where the call is
    advertised,  \* srcMD5 (CopyFile) or resp.File.MD5 (GetFile)
    strategy,    \* the branch CopyFile / GetFile took
    srcPos,      \* file offset of the shared srcFile handle
    dstPos,      \* file offset of the shared tempFile handle
    tasks,       \* block index -> the per-block goroutine's state
    published,   \* content of the temp file when it was renamed onto "dest"
    tempOpened,  \* the call has opened (created) its temporary file
    resp,        \* GetFile: the FileInfo of the first response
    conn,        \* getFileSequential: the bytes of its connection not yet read
    spawnedBy,   \* the function that started the block tasks: "none",
                 \* "copyFileParallel", "copyFileDelta" or "getFileParallel"
    calls,       \* the os.Rename / os.Remove calls of the publish so far, in
                 \* order, each with its outcome
    errChan,     \* the error channel of the block tasks: its capacity and the
                 \* number of errors in it
    result       \* "none" while running, then what the call returned

xferVars == <<op, fs, destBefore, pc, advertised, strategy, srcPos, dstPos, tasks,
              published, tempOpened, resp, conn, spawnedBy, calls, errChan, result>>

\* The sync orchestrator, two runs in a row against one Listener.
VARIABLES
    windows,      \* the platform of both peers: filepath uses "\\" (TRUE) or "/"
    remote,       \* the tree the Listener serves: path -> entry
    local,        \* the local tree: path -> entry
    run,          \* "first" or "second"
    spc,          \* where the run is
    remoteFiles,  \* the listing ListFiles returned
    localFiles,   \* the listing getLocalFiles returned
    idx,          \* index of the entry the current loop is at
    syncResult,   \* "none" while running, "ok", or the step whose error was returned
    firstResult,  \* what the first run returned
    listFault,    \* how the remote listing of this run failed ("none": it did not)
    localAtStart, \* the local tree when this run started
    log           \* what this run did, in order: mkdir, download, skip, remove

\* The Listener: Server.Start and the handlers of its connections.
VARIABLES
    lis,          \* the listening socket: "none", "open" or "closed"
    startPc,      \* where Server.Start is
    startResult,  \* what Server.Start returned: "none" (it has not), "nil", "error"
    acceptErrors, \* Accept calls that have returned an error
    served,       \* the file the requests name, on the Listener's disk
    conns         \* connection -> the request on it and what its handler has sent

serveVars == <<lis, startPc, startResult, acceptErrors, served, conns>>

\* The block diff of two files.
VARIABLES
    diffSource,      \* content of the source file
    diffDest,        \* content of the destination file
    srcBlocks,    \* what CalculateFileBlocks returned for the source
    dstBlocks,      \* what CalculateFileBlocks returned for the destination
    diffBlocks, \* what FindDifferentBlocks returned
    diffPc,          \* where the caller is
    cmpSource,       \* CompareFiles: what is at the path source
    cmpDest,         \* CompareFiles: what is at the path dest
    different,       \* CompareFiles: the bool it returned
    cmpErr,          \* CompareFiles: it returned an error
    cmpPc,           \* where the caller of CompareFiles is
    splitSize,       \* the split into blocks: the size of the file
    ranges           \* the split into blocks: function -> block index -> the
                     \* byte range that function has computed for the block

blockVars == <<diffSource, diffDest, srcBlocks, dstBlocks, diffBlocks, diffPc>>
cmpVars == <<cmpSource, cmpDest, different, cmpErr, cmpPc>>
splitVars == <<splitSize, ranges>>
diffVars == <<blockVars, cmpVars, splitVars>>

\* One connection of the Listener and the handler serving it.
VARIABLES
    rootDir,      \* Server.rootDir: NoRoot (the empty string) or a directory
    wire,         \* the requests the client has written on the connection and
                  \* the handler has not read
    hconn,        \* the handler: where it is, the request it decoded, the
                  \* responses and raw bytes it has written, the paths it has
                  \* used on the disk, and whether the connection is open
    client        \* the ListFiles or GetFile call at the other end of the
                  \* connection: where it is and what it returned

reqVars == <<rootDir, wire, hconn, client>>

\* The export shim of cmd/gorsync: StartServer, StopServer and the
\* goroutines StartServer starts.
VARIABLES
    serverInstance, \* the global: 0 (nil) or the instance registered
    instances,      \* the Servers NewServer has made so far
    bg,             \* instance -> the goroutine StartServer started with it
    listening,      \* the instances whose Start holds the listening socket
    startReturns,   \* what the calls of StartServer have returned, in order
    crashed         \* a call was made through the nil serverInstance

shimVars == <<serverInstance, instances, bg, listening, startReturns, crashed>>
hostVars == <<reqVars, shimVars>>
ConnIds == 1..MaxConns

syncVars == <<windows, remote, local, run, spc, remoteFiles, localFiles, idx,
              syncResult, firstResult, listFault, localAtStart, log>>

Paths == {"source", "dest", "temp", "origtmp"}

MaxBlocks == CeilDiv(MaxSize, BlockSize)
BlockIds == 0..(MaxBlocks - 1)
NoTask == [pc |-> "none", off |-> 0, remaining |-> 0, buf |-> <<>>]
NoResp == [Size |-> -1, MD5 |-> NoHash, NumBlocks |-> 0]
NoTasks == [b \in BlockIds |-> NoTask]
\* make(chan error, n)
MakeChanOfOne(n) == [cap |-> 1, len |-> 0]

MakeChan(n) == [cap |-> n, len |-> 0]

\* The deferred os.Remove(tempDest) / os.Remove(tempPath) of a returning call.
RemoveTemp(f) == [f EXCEPT !["temp"] = NoFile]

\* os.Rename(old, new) that succeeds.
RenameDropsFile(f, old, new) == [f EXCEPT ![new] = NoFile, ![old] = NoFile]

Rename(f, old, new) == [f EXCEPT ![new] = f[old], ![old] = NoFile]

\* A return of CopyFile / GetFile with error res: the deferred Remove runs
\* (every handle on the temporary file is closed by then; the Remove is
\* taken to succeed).
ReturnErrorKeepsTemp(res) ==
    /\ result' = res
    /\ pc' = "done"
    /\ fs' = fs

ReturnError(res) ==
    /\ result' = res
    /\ pc' = "done"
    /\ fs' = RemoveTemp(fs)

\* ------------------------------------------------- transfer.CopyFile
\* Lines 72-75: the MD5 of the source; an unreadable source ends the call
\* before a temporary file exists.
CopyStart ==
    /\ op = "copy" /\ pc = "start"
    /\ IF fs["source"] = NoFile
       THEN /\ result' = "ioerror" /\ pc' = "done"
            /\ UNCHANGED <<fs, advertised>>
       ELSE /\ advertised' = CalculateMD5(fs["source"])
            /\ pc' = "open"
            /\ UNCHANGED <<fs, result>>
    /\ UNCHANGED <<op, destBefore, strategy, srcPos, dstPos, tasks, published, tempOpened, resp, conn>>
    /\ UNCHANGED <<spawnedBy, calls, errChan>>
    /\ UNCHANGED syncVars
    /\ UNCHANGED serveVars
    /\ UNCHANGED diffVars
    /\ UNCHANGED hostVars

\* The branch of lines 121 and 150-167, from the source size, the bytes the
\* temporary file already holds and whether the destination exists.
SelectStrategyAtLeast(size, transferred, destExists) ==
    IF transferred >= size THEN "complete"
    ELSE IF size >= MinParallelSize /\ destExists THEN "delta"
    ELSE IF size >= MinParallelSize THEN "parallel"
    ELSE "sequential"

SelectStrategy(size, transferred, destExists) ==
    IF transferred >= size THEN "complete"
    ELSE IF size > MinParallelSize /\ destExists THEN "delta"
    ELSE IF size > MinParallelSize THEN "parallel"
    ELSE "sequential"

\* copyFileParallel lines 325-342: block i of the range [offset, offset+size).
ParallelBlockUnclipped(offset, size, i) ==
    [pc |-> "seekSrc", off |-> offset + i * BlockSize, remaining |-> BlockSize,
     buf |-> <<>>]

ParallelBlock(offset, size, i) ==
    LET blockOffset == offset + i * BlockSize
    IN [pc |-> "seekSrc", off |-> blockOffset,
        remaining |-> IF blockOffset + BlockSize > offset + size
                      THEN offset + size - blockOffset ELSE BlockSize,
        buf |-> <<>>]

ParallelTasks(offset, size) ==
    [b \in BlockIds |->
        IF b < CeilDiv(size, BlockSize) THEN ParallelBlock(offset, size, b) ELSE NoTask]

\* copyFileDelta lines 229-239: the size of block index in sourceBlocks
\* (0 when not listed).
DeltaBlockSize(sourceBlocks, index) ==
    IF \E k \in DOMAIN sourceBlocks : sourceBlocks[k].Index = index
    THEN sourceBlocks[CHOOSE k \in DOMAIN sourceBlocks :
                          /\ sourceBlocks[k].Index = index
                          /\ \A m \in DOMAIN sourceBlocks :
                                sourceBlocks[m].Index = index => k <= m].Size
    ELSE 0

\* copyFileDelta lines 192-250: one task per block that differs between the
\* source and the file named tempDest.
DeltaTasks(source, tempDest) ==
    LET sourceBlocks == CalculateFileBlocks(source)
        destBlocks == CalculateFileBlocks(tempDest)
        differentBlocks == FindDifferentBlocks(sourceBlocks, destBlocks)
        chosen == {differentBlocks[k] : k \in DOMAIN differentBlocks}
    IN [b \in BlockIds |->
          IF b \in chosen
          THEN [pc |-> "seekSrc", off |-> b * BlockSize,
                remaining |-> DeltaBlockSize(sourceBlocks, b), buf |-> <<>>]
          ELSE NoTask]

\* Lines 77-167: the temporary file is created under a fresh random name
\* (utils.MakeTempName), so it starts empty and transferred is 0; then the
\* strategy is chosen.  okOpen = FALSE: os.OpenFile fails.
CopyOpen ==
    /\ op = "copy" /\ pc = "open"
    /\ \E okOpen \in BOOLEAN :
         IF ~okOpen
         THEN /\ ReturnError("ioerror")
              /\ UNCHANGED <<strategy, srcPos, dstPos, tempOpened>>
         ELSE LET transferred == 0
                  s == SelectStrategy(Len(fs["source"]), transferred, fs["dest"] # NoFile)
              IN /\ fs' = [fs EXCEPT !["temp"] = <<>>]
                 /\ tempOpened' = TRUE
                 /\ strategy' = s
                 /\ result' = result
                 /\ pc' = IF s = "complete" THEN "verify" ELSE s
                 \* copyFileSequential lines 270-277 seek both handles
                 /\ srcPos' = transferred /\ dstPos' = transferred
    /\ UNCHANGED <<op, destBefore, advertised, tasks, published, resp, conn>>
    /\ UNCHANGED <<spawnedBy, calls, errChan>>
    /\ UNCHANGED syncVars
    /\ UNCHANGED serveVars
    /\ UNCHANGED diffVars
    /\ UNCHANGED hostVars

\* copyFileSequential lines 287-316: one turn of the loop (Read, Write,
\* Sync); the loop ends at size bytes or at end of file.  ok = FALSE: one
\* of the three calls fails.
CopySequentialStep ==
    /\ op = "copy" /\ pc = "sequential"
    /\ IF dstPos >= Len(fs["source"])
       THEN /\ pc' = "verify"
            /\ UNCHANGED <<fs, srcPos, dstPos, result>>
       ELSE \E ok \in BOOLEAN :
              LET data == ReadAt(fs["source"], srcPos, BufferSize)
              IN IF ~ok
                 THEN /\ ReturnError("ioerror")
                      /\ UNCHANGED <<srcPos, dstPos>>
                 ELSE IF Len(data) = 0
                 THEN /\ pc' = "verify"
                      /\ UNCHANGED <<fs, srcPos, dstPos, result>>
                 ELSE /\ fs' = [fs EXCEPT !["temp"] = WriteAt(fs["temp"], dstPos, data)]
                      /\ srcPos' = srcPos + Len(data)
                      /\ dstPos' = dstPos + Len(data)
                      /\ UNCHANGED <<pc, result>>
    /\ UNCHANGED <<op, destBefore, advertised, strategy, tasks, published, tempOpened, resp, conn>>
    /\ UNCHANGED <<spawnedBy, calls, errChan>>
    /\ UNCHANGED syncVars
    /\ UNCHANGED serveVars
    /\ UNCHANGED diffVars
    /\ UNCHANGED hostVars

\* copyFileParallel lines 323-353: one goroutine per block is started.
CopyParallelStart ==
    /\ op = "copy" /\ pc = "parallel"
    /\ tasks' = ParallelTasks(0, Len(fs["source"]))
    /\ errChan' = MakeChan(CeilDiv(Len(fs["source"]), BlockSize))
    /\ spawnedBy' = "copyFileParallel"
    /\ pc' = "join"
    /\ UNCHANGED <<op, fs, destBefore, advertised, strategy, srcPos, dstPos,
                   published, tempOpened, resp, conn, result>>
    /\ UNCHANGED calls
    /\ UNCHANGED syncVars
    /\ UNCHANGED serveVars
    /\ UNCHANGED diffVars
    /\ UNCHANGED hostVars

\* copyFileDelta lines 190-250.  fault "source": the source's blocks cannot
\* be computed (error); fault "dest": tempDest's blocks cannot be computed
\* (copyFileParallel over the whole file instead).
CopyDeltaStart ==
    /\ op = "copy" /\ pc = "delta"
    /\ \E fault \in {"none", "source", "dest"} :
         CASE fault = "source" ->
                /\ ReturnError("ioerror")
                /\ UNCHANGED <<tasks, spawnedBy, errChan>>
           [] fault = "dest" ->
                /\ tasks' = ParallelTasks(0, Len(fs["source"]))
                /\ errChan' = MakeChan(CeilDiv(Len(fs["source"]), BlockSize))
                /\ spawnedBy' = "copyFileParallel"
                /\ pc' = "join"
                /\ UNCHANGED <<fs, result>>
           [] fault = "none" ->
                LET t == DeltaTasks(fs["source"], fs["temp"])
                    n == Cardinality({b \in BlockIds : t[b].pc # "none"})
                IN /\ tasks' = t
                   \* line 222: make(chan error, len(differentBlocks))
                   /\ errChan' = IF n = 0 THEN errChan ELSE MakeChan(n)
                   /\ spawnedBy' = "copyFileDelta"
                   \* line 215: no differing block, nothing to transfer
                   /\ pc' = IF \A b \in BlockIds : t[b].pc = "none"
                            THEN "verify" ELSE "join"
                   /\ UNCHANGED <<fs, result>>
    /\ UNCHANGED <<op, destBefore, advertised, strategy, srcPos, dstPos, published, tempOpened, resp, conn>>
    /\ UNCHANGED calls
    /\ UNCHANGED syncVars
    /\ UNCHANGED serveVars
    /\ UNCHANGED diffVars
    /\ UNCHANGED hostVars

\* ---------------------------------------------- transfer.copyFileBlock
\* The goroutines of one transfer share srcFile and tempFile, hence the two
\* file offsets; each Seek, Read and Write is one atomic step.

\* Line 23: srcFile.Seek(offset).
BlockSeekSrc(b) ==
    /\ op = "copy" /\ pc = "join" /\ tasks[b].pc = "seekSrc"
    /\ srcPos' = tasks[b].off
    /\ tasks' = [tasks EXCEPT ![b].pc = "seekDst"]
    /\ UNCHANGED <<op, fs, destBefore, pc, advertised, strategy, dstPos, published, tempOpened, resp, conn, result>>
    /\ UNCHANGED <<spawnedBy, calls, errChan>>
    /\ UNCHANGED syncVars
    /\ UNCHANGED serveVars
    /\ UNCHANGED diffVars
    /\ UNCHANGED hostVars

\* Line 27: destFile.Seek(offset).
BlockSeekDst(b) ==
    /\ op = "copy" /\ pc = "join" /\ tasks[b].pc = "seekDst"
    /\ dstPos' = tasks[b].off
    /\ tasks' = [tasks EXCEPT ![b].pc = IF tasks[b].remaining > 0 THEN "read" ELSE "done"]
    /\ UNCHANGED <<op, fs, destBefore, pc, advertised, strategy, srcPos, published, tempOpened, resp, conn, result>>
    /\ UNCHANGED <<spawnedBy, calls, errChan>>
    /\ UNCHANGED syncVars
    /\ UNCHANGED serveVars
    /\ UNCHANGED diffVars
    /\ UNCHANGED hostVars

\* Lines 40-52: srcFile.Read of at most min(bufferSize, remaining) bytes at
\* the handle's current offset; nothing read ends the loop.
BlockRead(b) ==
    /\ op = "copy" /\ pc = "join" /\ tasks[b].pc = "read"
    /\ LET data == ReadAt(fs["source"], srcPos, Min(BufferSize, tasks[b].remaining))
       IN /\ srcPos' = srcPos + Len(data)
          /\ tasks' = [tasks EXCEPT ![b].buf = data,
                                    ![b].pc = IF Len(data) = 0 THEN "done" ELSE "write"]
    /\ UNCHANGED <<op, fs, destBefore, pc, advertised, strategy, dstPos, published, tempOpened, resp, conn, result>>
    /\ UNCHANGED <<spawnedBy, calls, errChan>>
    /\ UNCHANGED syncVars
    /\ UNCHANGED serveVars
    /\ UNCHANGED diffVars
    /\ UNCHANGED hostVars

\* Lines 54-63: destFile.Write at the handle's current offset, then Sync.
BlockWrite(b) ==
    /\ op = "copy" /\ pc = "join" /\ tasks[b].pc = "write"
    /\ LET data == tasks[b].buf
           left == tasks[b].remaining - Len(data)
       IN /\ fs' = [fs EXCEPT !["temp"] = WriteAt(fs["temp"], dstPos, data)]
          /\ dstPos' = dstPos + Len(data)
          /\ tasks' = [tasks EXCEPT ![b].buf = <<>>, ![b].remaining = left,
                                    ![b].pc = IF left > 0 THEN "read" ELSE "done"]
    /\ UNCHANGED <<op, destBefore, pc, advertised, strategy, srcPos, published, tempOpened, resp, conn, result>>
    /\ UNCHANGED <<spawnedBy, calls, errChan>>
    /\ UNCHANGED syncVars
    /\ UNCHANGED serveVars
    /\ UNCHANGED diffVars
    /\ UNCHANGED hostVars

\* A Seek, Read, Write or Sync of the block fails: copyFileBlock returns
\* the error, which the goroutine is to send on errChan.
BlockFail(b) ==
    /\ op = "copy" /\ pc = "join"
    /\ tasks[b].pc \in {"seekSrc", "seekDst", "read", "write"}
    /\ tasks' = [tasks EXCEPT ![b].pc = "send", ![b].buf = <<>>]
    /\ UNCHANGED <<op, fs, destBefore, pc, advertised, strategy, srcPos, dstPos,
                   published, tempOpened, resp, conn, result>>
    /\ UNCHANGED <<spawnedBy, calls, errChan>>
    /\ UNCHANGED syncVars
    /\ UNCHANGED serveVars
    /\ UNCHANGED diffVars
    /\ UNCHANGED hostVars

\* errChan <- err (transfer.go:244, 345; client.go:389): the send waits
\* for room in the channel; then the goroutine ends (wg.Done).
SendErrorCancels(b) ==
    /\ pc \in {"join", "gjoin"} /\ tasks[b].pc = "send"
    /\ errChan.len < errChan.cap
    /\ errChan' = [errChan EXCEPT !.len = @ + 1]
    /\ tasks' = [c \in BlockIds |->
                  IF c = b THEN [tasks[c] EXCEPT !.pc = "failed"]
                  ELSE IF tasks[c].pc \in {"none", "done", "failed", "send"} THEN tasks[c]
                  ELSE [tasks[c] EXCEPT !.pc = "done", !.buf = <<>>]]
    /\ UNCHANGED <<op, fs, destBefore, pc, advertised, strategy, srcPos, dstPos,
                   published, tempOpened, resp, conn, result>>
    /\ UNCHANGED <<spawnedBy, calls>>
    /\ UNCHANGED syncVars
    /\ UNCHANGED serveVars
    /\ UNCHANGED diffVars
    /\ UNCHANGED hostVars

SendError(b) ==
    /\ pc \in {"join", "gjoin"} /\ tasks[b].pc = "send"
    /\ errChan.len < errChan.cap
    /\ errChan' = [errChan EXCEPT !.len = @ + 1]
    /\ tasks' = [tasks EXCEPT ![b].pc = "failed"]
    /\ UNCHANGED <<op, fs, destBefore, pc, advertised, strategy, srcPos, dstPos,
                   published, tempOpened, resp, conn, result>>
    /\ UNCHANGED <<spawnedBy, calls>>
    /\ UNCHANGED syncVars
    /\ UNCHANGED serveVars
    /\ UNCHANGED diffVars
    /\ UNCHANGED hostVars

\* wg.Wait() returns: every goroutine that was started has ended.
WaitReturnsAtFirst == \E b \in BlockIds : tasks[b].pc \in {"done", "failed"}

WaitReturns == \A b \in BlockIds : tasks[b].pc \in {"none", "done", "failed"}

\* wg.Wait() and the read of errChan (lines 253-264, 356-367): once every
\* goroutine has ended, the first error, if any, is returned.
CopyJoin ==
    /\ op = "copy" /\ pc = "join"
    /\ WaitReturns
    /\ IF errChan.len > 0
       THEN ReturnError("ioerror")
       ELSE /\ pc' = "verify"
            /\ UNCHANGED <<fs, result>>
    /\ UNCHANGED <<op, destBefore, advertised, strategy, srcPos, dstPos, tasks, published, tempOpened, resp, conn>>
    /\ UNCHANGED <<spawnedBy, calls, errChan>>
    /\ UNCHANGED syncVars
    /\ UNCHANGED serveVars
    /\ UNCHANGED diffVars
    /\ UNCHANGED hostVars

\* Lines 122-131 and 169-178: the MD5 of the temporary file against srcMD5.
\* ok = FALSE: the temporary file cannot be hashed.
CopyVerify ==
    /\ op = "copy" /\ pc = "verify"
    /\ \E ok \in BOOLEAN :
         IF ~ok THEN ReturnError("ioerror")
         ELSE IF advertised # CalculateMD5(fs["temp"]) THEN ReturnError("mismatch")
         ELSE /\ pc' = "rename"
              /\ UNCHANGED <<fs, result>>
    /\ UNCHANGED <<op, destBefore, advertised, strategy, srcPos, dstPos, tasks, published, tempOpened, resp, conn>>
    /\ UNCHANGED <<spawnedBy, calls, errChan>>
    /\ UNCHANGED syncVars
    /\ UNCHANGED serveVars
    /\ UNCHANGED diffVars
    /\ UNCHANGED hostVars

\* --------------------------------- utils.Saferename / net.saferename
\* The two functions are the same code; "temp" is oldname, "dest" newname
\* and "origtmp" the unused name the loop of lines 81-88 finds.  Every
\* os.Rename may fail (ok = FALSE).

\* One call of the publish and whether it succeeded.
Called(call, ok) == Append(calls, [call |-> call, ok |-> ok])

\* Line 71: the direct rename.
RenameDirect ==
    /\ pc = "rename"
    /\ \E ok \in BOOLEAN :
         /\ calls' = Called("rename", ok)
         /\ IF ok
            THEN /\ fs' = Rename(fs, "temp", "dest")
                 /\ published' = fs["temp"]
                 /\ result' = "ok"
                 /\ pc' = "done"
            ELSE /\ pc' = "aside"
                 /\ UNCHANGED <<fs, published, result>>
    /\ UNCHANGED <<op, destBefore, advertised, strategy, srcPos, dstPos, tasks,
                   tempOpened, resp, conn>>
    /\ UNCHANGED <<spawnedBy, errChan>>
    /\ UNCHANGED syncVars
    /\ UNCHANGED serveVars
    /\ UNCHANGED diffVars
    /\ UNCHANGED hostVars

\* Lines 89-92: the existing destination is moved aside; with no
\* destination to move, or a failed rename, the call returns the error.
RenameAside ==
    /\ pc = "aside"
    /\ \E ok \in BOOLEAN :
         /\ calls' = Called("aside", ok /\ fs["dest"] # NoFile)
         /\ IF ok /\ fs["dest"] # NoFile
            THEN /\ fs' = Rename(fs, "dest", "origtmp")
                 /\ pc' = "rename2"
                 /\ UNCHANGED result
            ELSE ReturnError("ioerror")
    /\ UNCHANGED <<op, destBefore, advertised, strategy, srcPos, dstPos, tasks,
                   published, tempOpened, resp, conn>>
    /\ UNCHANGED <<spawnedBy, errChan>>
    /\ UNCHANGED syncVars
    /\ UNCHANGED serveVars
    /\ UNCHANGED diffVars
    /\ UNCHANGED hostVars

\* Lines 93-94: the second rename of the temporary file.
RenameSecond ==
    /\ pc = "rename2"
    /\ \E ok \in BOOLEAN :
         /\ calls' = Called("rename2", ok)
         /\ IF ok
            THEN /\ fs' = Rename(fs, "temp", "dest")
                 /\ published' = fs["temp"]
                 /\ pc' = "removeOrig"
            ELSE /\ pc' = "restore"
                 /\ UNCHANGED <<fs, published>>
    /\ UNCHANGED <<op, destBefore, advertised, strategy, srcPos, dstPos, tasks,
                   tempOpened, resp, conn, result>>
    /\ UNCHANGED <<spawnedBy, errChan>>
    /\ UNCHANGED syncVars
    /\ UNCHANGED serveVars
    /\ UNCHANGED diffVars
    /\ UNCHANGED hostVars

\* Line 97: the displaced original is renamed back, errors ignored.
RestoreOriginalSkipped(ok) == fs

RestoreOriginal(ok) == IF ok THEN Rename(fs, "origtmp", "dest") ELSE fs

\* Lines 95-98: the restore, and the return of the error of the second
\* rename (with the deferred Remove of the caller).
RenameRestore ==
    /\ pc = "restore"
    /\ \E ok \in BOOLEAN :
         /\ calls' = Called("restore", ok)
         /\ fs' = RemoveTemp(RestoreOriginal(ok))
         /\ result' = "ioerror"
         /\ pc' = "done"
    /\ UNCHANGED <<op, destBefore, advertised, strategy, srcPos, dstPos, tasks,
                   published, tempOpened, resp, conn>>
    /\ UNCHANGED <<spawnedBy, errChan>>
    /\ UNCHANGED syncVars
    /\ UNCHANGED serveVars
    /\ UNCHANGED diffVars
    /\ UNCHANGED hostVars

\* Lines 100-103: the displaced original is removed, errors ignored.
RemoveOriginal ==
    /\ pc = "removeOrig"
    /\ \E ok \in BOOLEAN :
         /\ calls' = Called("remove", ok)
         /\ fs' = IF ok THEN [fs EXCEPT !["origtmp"] = NoFile] ELSE fs
         /\ result' = "ok"
         /\ pc' = "done"
    /\ UNCHANGED <<op, destBefore, advertised, strategy, srcPos, dstPos, tasks,
                   published, tempOpened, resp, conn>>
    /\ UNCHANGED <<spawnedBy, errChan>>
    /\ UNCHANGED syncVars
    /\ UNCHANGED serveVars
    /\ UNCHANGED diffVars
    /\ UNCHANGED hostVars

\* ------------------------------------------- Server.handleFileRequest
\* A Request carries Offset and BlockIndex; BlockIndex is an int64 with
\* omitempty, so a request that names no block arrives with BlockIndex 0.

\* Lines 229-241: the FileInfo sent; hashOk = FALSE: calculateMD5 failed and
\* the MD5 field stays empty.
FileRecord(src, hashOk) ==
    [Size |-> Len(src),
     MD5 |-> IF hashOk THEN CalculateMD5(src) ELSE NoHash,
     NumBlocks |-> CeilDiv(Len(src), BlockSize)]

\* Lines 255-266: the range streamed for a request.
TransferOffset(offset, blockIndex) ==
    IF blockIndex >= 0 THEN blockIndex * BlockSize ELSE offset

TransferSize(size, offset, blockIndex) ==
    IF blockIndex >= 0
    THEN IF blockIndex * BlockSize + BlockSize > size
         THEN size - blockIndex * BlockSize
         ELSE BlockSize
    ELSE size - offset

\* Lines 248-321: what follows the JSON value of an ok response on the
\* connection: the Encoder's newline, the sentinel, then the bytes of the
\* range.  cut: the stream ends after cut bytes of data (a failed read or
\* write ends the handler, which closes the connection).
FileStream(src, offset, blockIndex, cut) ==
    LET n == TransferSize(Len(src), offset, blockIndex)
        data == IF n <= 0 THEN <<>>
                ELSE ReadAt(src, TransferOffset(offset, blockIndex), n)
    IN <<NL, NL>> \o SubSeq(data, 1, Min(cut, Len(data)))

\* The byte range of block blockIndex as GetFileBlock computes it from the
\* size in the FileInfo of its connection (client.go:470-483).
GetFileBlockRange(size, blockIndex) ==
    LET offset == blockIndex * BlockSize
    IN [off |-> offset,
        len |-> IF offset + BlockSize > size THEN size - offset ELSE BlockSize]

\* ------------------------------------------------------ Client.GetFile
\* Lines 155-185: the first connection, used for the FileInfo only.
\* fault "connect": net.Dial or the send fails; "decode": the response is
\* not a JSON value.  A missing file is answered with status error.
GetConnect ==
    /\ op = "get" /\ pc = "start"
    /\ \E fault \in {"none", "connect", "decode"}, hashOk \in BOOLEAN :
         CASE fault = "connect" ->
                /\ result' = "ioerror" /\ pc' = "done"
                /\ UNCHANGED <<resp, advertised>>
           [] fault = "decode" \/ (fault = "none" /\ fs["source"] = NoFile) ->
                /\ result' = "protocol" /\ pc' = "done"
                /\ UNCHANGED <<resp, advertised>>
           [] fault = "none" /\ fs["source"] # NoFile ->
                /\ resp' = FileRecord(fs["source"], hashOk)
                /\ advertised' = FileRecord(fs["source"], hashOk).MD5
                /\ pc' = "open"
                /\ UNCHANGED result
    /\ UNCHANGED <<op, fs, destBefore, strategy, srcPos, dstPos, tasks, published,
                   tempOpened, conn>>
    /\ UNCHANGED <<spawnedBy, calls, errChan>>
    /\ UNCHANGED syncVars
    /\ UNCHANGED serveVars
    /\ UNCHANGED diffVars
    /\ UNCHANGED hostVars

\* Lines 191-221: the destination directory, the temporary file
\* localPath + ".tmp" (opened with O_CREATE, not truncated: a file already
\* at that path keeps its bytes) and the choice of the transfer.
\* fault "mkdir": os.MkdirAll fails, before the deferred Remove is set up;
\* "open": os.OpenFile fails.
GetOpenTemp ==
    /\ op = "get" /\ pc = "open"
    /\ \E fault \in {"none", "mkdir", "open"} :
         CASE fault = "mkdir" ->
                /\ result' = "ioerror" /\ pc' = "done"
                /\ UNCHANGED <<fs, tempOpened, strategy>>
           [] fault = "open" ->
                /\ ReturnError("ioerror")
                /\ UNCHANGED <<tempOpened, strategy>>
           [] fault = "none" ->
                /\ fs' = [fs EXCEPT !["temp"] = IF @ = NoFile THEN <<>> ELSE @]
                /\ tempOpened' = TRUE
                /\ strategy' = IF resp.Size > MinParallelSize
                               THEN "parallel" ELSE "sequential"
                /\ pc' = IF resp.Size > MinParallelSize THEN "gpar" ELSE "gseq"
                /\ UNCHANGED result
    /\ UNCHANGED <<op, destBefore, advertised, srcPos, dstPos, tasks, published,
                   resp, conn>>
    /\ UNCHANGED <<spawnedBy, calls, errChan>>
    /\ UNCHANGED syncVars
    /\ UNCHANGED serveVars
    /\ UNCHANGED diffVars
    /\ UNCHANGED hostVars

\* getFileSequential lines 247-295: a second connection and request
\* (offset 0); ReadBytes('\n') takes the JSON line, ReadByte the sentinel;
\* then the temporary file is opened and positioned at the offset.
GetSequentialConnect ==
    /\ op = "get" /\ pc = "gseq"
    /\ \E fault \in {"none", "connect", "decode"}, hashOk \in BOOLEAN,
          cut \in 0..MaxSize :
         LET stream == FileStream(fs["source"], 0, 0, cut)
             afterLine == Tail(stream)
         IN CASE fault = "connect" ->
                   /\ ReturnError("ioerror")
                   /\ UNCHANGED <<conn, dstPos>>
              [] fault = "decode" \/ (fault = "none" /\ Head(afterLine) # NL) ->
                   /\ ReturnError("protocol")
                   /\ UNCHANGED <<conn, dstPos>>
              [] fault = "none" /\ Head(afterLine) = NL ->
                   /\ conn' = [File |-> FileRecord(fs["source"], hashOk),
                               data |-> Tail(afterLine)]
                   /\ dstPos' = 0
                   /\ pc' = "grecv"
                   /\ UNCHANGED <<fs, result>>
    /\ UNCHANGED <<op, destBefore, advertised, strategy, srcPos, tasks, published,
                   tempOpened, resp>>
    /\ UNCHANGED <<spawnedBy, calls, errChan>>
    /\ UNCHANGED syncVars
    /\ UNCHANGED serveVars
    /\ UNCHANGED diffVars
    /\ UNCHANGED hostVars

\* getFileSequential lines 305-354: one turn of the receive loop, and after
\* the loop the check against the MD5 of this connection's FileInfo, made
\* only when that MD5 is not empty.  ok = FALSE: a Read, Write or Sync
\* fails.
GetSequentialRecv ==
    /\ op = "get" /\ pc = "grecv"
    /\ IF dstPos < conn.File.Size /\ Len(conn.data) > 0
       THEN \E ok \in BOOLEAN :
              LET n == Min(BufferSize, Len(conn.data))
              IN IF ~ok
                 THEN /\ ReturnError("ioerror")
                      /\ UNCHANGED <<conn, dstPos>>
                 ELSE /\ fs' = [fs EXCEPT !["temp"] =
                                   WriteAt(@, dstPos, SubSeq(conn.data, 1, n))]
                      /\ dstPos' = dstPos + n
                      /\ conn' = [conn EXCEPT !.data = SubSeq(@, n + 1, Len(@))]
                      /\ UNCHANGED <<pc, result>>
       ELSE /\ IF conn.File.MD5 # NoHash /\ conn.File.MD5 # CalculateMD5(fs["temp"])
               THEN ReturnError("mismatch")
               ELSE /\ pc' = "gverify"
                    /\ UNCHANGED <<fs, result>>
            /\ UNCHANGED <<conn, dstPos>>
    /\ UNCHANGED <<op, destBefore, advertised, strategy, srcPos, tasks, published,
                   tempOpened, resp>>
    /\ UNCHANGED <<spawnedBy, calls, errChan>>
    /\ UNCHANGED syncVars
    /\ UNCHANGED serveVars
    /\ UNCHANGED diffVars
    /\ UNCHANGED hostVars

\* getFileParallel lines 358-394: os.Create empties the temporary file,
\* Truncate extends it to the declared size, and one goroutine per block is
\* started.  ok = FALSE: Create or Truncate fails.
GetParallelStart ==
    /\ op = "get" /\ pc = "gpar"
    /\ \E ok \in BOOLEAN :
         IF ~ok
         THEN /\ ReturnError("ioerror")
              /\ UNCHANGED <<tasks, spawnedBy, errChan>>
         ELSE LET numBlocks == IF resp.NumBlocks <= 0
                               THEN CeilDiv(resp.Size, BlockSize)
                               ELSE resp.NumBlocks
              IN /\ fs' = [fs EXCEPT !["temp"] = [i \in 1..resp.Size |-> Zero]]
                 /\ tasks' = [b \in BlockIds |->
                                IF b < numBlocks
                                THEN [NoTask EXCEPT !.pc = "connect"]
                                ELSE NoTask]
                 /\ errChan' = MakeChan(numBlocks)
                 /\ spawnedBy' = "getFileParallel"
                 /\ pc' = "gjoin"
                 /\ UNCHANGED result
    /\ UNCHANGED <<op, destBefore, advertised, strategy, srcPos, dstPos, published,
                   tempOpened, resp, conn>>
    /\ UNCHANGED calls
    /\ UNCHANGED syncVars
    /\ UNCHANGED serveVars
    /\ UNCHANGED diffVars
    /\ UNCHANGED hostVars

\* GetFileBlock lines 430-485: a connection and request of its own for block
\* b; json.Decoder.Decode reads the response and with it ahead bytes that
\* follow the JSON value, which stay in the Decoder; then the goroutine
\* opens the temporary file (a handle of its own) and seeks to the block.
\* In the task, off is that handle's offset, remaining is
\* totalSize - transferred and buf the bytes conn.Read will still return.
GetBlockConnect(b) ==
    /\ op = "get" /\ pc = "gjoin" /\ tasks[b].pc = "connect"
    /\ \E ahead \in 0..MaxReadAhead, cut \in 0..BlockSize :
         LET stream == FileStream(fs["source"], 0, b, cut)
             offset == GetFileBlockRange(Len(fs["source"]), b).off
             totalSize == GetFileBlockRange(Len(fs["source"]), b).len
         IN tasks' = [tasks EXCEPT ![b] =
                        [pc |-> "recv", off |-> offset, remaining |-> totalSize,
                         buf |-> SubSeq(stream, Min(ahead, Len(stream)) + 1, Len(stream))]]
    /\ UNCHANGED <<op, fs, destBefore, pc, advertised, strategy, srcPos, dstPos,
                   published, tempOpened, resp, conn, result>>
    /\ UNCHANGED <<spawnedBy, calls, errChan>>
    /\ UNCHANGED syncVars
    /\ UNCHANGED serveVars
    /\ UNCHANGED diffVars
    /\ UNCHANGED hostVars

\* GetFileBlock lines 487-517: one turn of the receive loop: conn.Read into
\* the 64 KiB buffer, Write at the handle's offset, Sync.
GetBlockRecv(b) ==
    /\ op = "get" /\ pc = "gjoin" /\ tasks[b].pc = "recv"
    /\ IF tasks[b].remaining > 0 /\ Len(tasks[b].buf) > 0
       THEN LET n == Min(BufferSize, Len(tasks[b].buf))
            IN /\ fs' = [fs EXCEPT !["temp"] =
                            WriteAt(@, tasks[b].off, SubSeq(tasks[b].buf, 1, n))]
               /\ tasks' = [tasks EXCEPT
                              ![b].off = @ + n,
                              ![b].remaining = @ - n,
                              ![b].buf = SubSeq(@, n + 1, Len(@))]
       ELSE /\ tasks' = [tasks EXCEPT ![b].pc = "done", ![b].buf = <<>>]
            /\ UNCHANGED fs
    /\ UNCHANGED <<op, destBefore, pc, advertised, strategy, srcPos, dstPos,
                   published, tempOpened, resp, conn, result>>
    /\ UNCHANGED <<spawnedBy, calls, errChan>>
    /\ UNCHANGED syncVars
    /\ UNCHANGED serveVars
    /\ UNCHANGED diffVars
    /\ UNCHANGED hostVars

\* GetFileBlock returns an error (the connection, the response, or a Read,
\* Write or Sync failed), which the goroutine is to send on errChan.
GetBlockFail(b) ==
    /\ op = "get" /\ pc = "gjoin" /\ tasks[b].pc \in {"connect", "recv"}
    /\ tasks' = [tasks EXCEPT ![b].pc = "send", ![b].buf = <<>>]
    /\ UNCHANGED <<op, fs, destBefore, pc, advertised, strategy, srcPos, dstPos,
                   published, tempOpened, resp, conn, result>>
    /\ UNCHANGED <<spawnedBy, calls, errChan>>
    /\ UNCHANGED syncVars
    /\ UNCHANGED serveVars
    /\ UNCHANGED diffVars
    /\ UNCHANGED hostVars

\* getFileParallel lines 396-426: wg.Wait(), the first error of errChan,
\* then the check against fileInfo.MD5, made only when it is not empty.
GetJoin ==
    /\ op = "get" /\ pc = "gjoin"
    /\ WaitReturns
    /\ IF errChan.len > 0
       THEN ReturnError("ioerror")
       ELSE IF resp.MD5 # NoHash /\ resp.MD5 # CalculateMD5(fs["temp"])
       THEN ReturnError("mismatch")
       ELSE /\ pc' = "gverify"
            /\ UNCHANGED <<fs, result>>
    /\ UNCHANGED <<op, destBefore, advertised, strategy, srcPos, dstPos, tasks,
                   published, tempOpened, resp, conn>>
    /\ UNCHANGED <<spawnedBy, calls, errChan>>
    /\ UNCHANGED syncVars
    /\ UNCHANGED serveVars
    /\ UNCHANGED diffVars
    /\ UNCHANGED hostVars

\* GetFile lines 226-235: the MD5 of the temporary file against
\* resp.File.MD5, compared only when resp.File.MD5 is not empty.
\* ok = FALSE: the temporary file cannot be hashed.
GetVerify ==
    /\ op = "get" /\ pc = "gverify"
    /\ \E ok \in BOOLEAN :
         IF ~ok THEN ReturnError("ioerror")
         ELSE IF resp.MD5 # NoHash /\ resp.MD5 # CalculateMD5(fs["temp"])
         THEN ReturnError("mismatch")
         ELSE /\ pc' = "rename"
              /\ UNCHANGED <<fs, result>>
    /\ UNCHANGED <<op, destBefore, advertised, strategy, srcPos, dstPos, tasks,
                   published, tempOpened, resp, conn>>
    /\ UNCHANGED <<spawnedBy, calls, errChan>>
    /\ UNCHANGED syncVars
    /\ UNCHANGED serveVars
    /\ UNCHANGED diffVars
    /\ UNCHANGED hostVars

\* ------------------------------------------------ the transfer model
AllOf(n, v) == [i \in 1..n |-> v]
\* What the destination may hold before the call.
DestContents == {AllOf(n, 2) : n \in 0..MaxSize}
\* What a file already at localPath + ".tmp" may hold before GetFile.
LeftoverContents == {AllOf(1, 1), AllOf(MaxSize, 1)}

XferInit ==
    /\ op \in {"copy", "get"}
    /\ \E s \in Contents \cup {NoFile}, d \in DestContents \cup {NoFile},
          t \in LeftoverContents \cup {NoFile} :
         /\ op = "copy" => t = NoFile
         /\ fs = [p \in Paths |->
                    CASE p = "source" -> s
                      [] p = "dest" -> d
                      [] p = "temp" -> t
                      [] OTHER -> NoFile]
         /\ destBefore = d
    /\ pc = "start"
    /\ advertised = NoHash
    /\ strategy = "none"
    /\ srcPos = 0 /\ dstPos = 0
    /\ tasks = NoTasks
    /\ published = NoFile
    /\ tempOpened = FALSE
    /\ resp = NoResp
    /\ conn = [File |-> NoResp, data |-> <<>>]
    /\ spawnedBy = "none"
    /\ calls = <<>>
    /\ errChan = MakeChan(0)
    /\ result = "none"

XferNext ==
    \/ CopyStart \/ CopyOpen \/ CopySequentialStep \/ CopyParallelStart
    \/ CopyDeltaStart \/ CopyJoin \/ CopyVerify
    \/ \E b \in BlockIds :
         BlockSeekSrc(b) \/ BlockSeekDst(b) \/ BlockRead(b) \/ BlockWrite(b)
         \/ BlockFail(b)
    \/ RenameDirect \/ RenameAside \/ RenameSecond \/ RenameRestore \/ RemoveOriginal
    \/ GetConnect \/ GetOpenTemp \/ GetSequentialConnect \/ GetSequentialRecv
    \/ GetParallelStart \/ GetJoin \/ GetVerify
    \/ \E b \in BlockIds : GetBlockConnect(b) \/ GetBlockRecv(b) \/ GetBlockFail(b)
    \/ \E b \in BlockIds : SendError(b)

\* ------------------------------------------------------ trees and paths
\* A path is the sequence of its components below the synchronised root;
\* the root itself is << >>.  TreePaths, in the lexical order filepath.Walk
\* visits them.  "d-orig.tmp" is the name saferename's makeTempName gives
\* the displaced original of "d" (base name, random part, ".tmp", beside
\* "d"): a path nothing else uses.
WalkOrder == << <<"a">>, <<"a.tmp">>, <<"d">>, <<"d", "a">>,
                <<"d-orig.tmp">>, <<"d-orig.tmp", "a">> >>
TreePaths == {WalkOrder[k] : k \in DOMAIN WalkOrder}

NoEntry == [kind |-> "none", data |-> <<>>, modTime |-> 0]
DirEntry == [kind |-> "dir", data |-> <<>>, modTime |-> 0]
FileEntry(c, t) == [kind |-> "file", data |-> c, modTime |-> t]

\* Modification times: of the Listener's files, of the local files before
\* the first run, and of a file a download has just published.
RemoteTime == 1
LocalTime == 0
Now == 2

IsUnder(q, p) == Len(q) > Len(p) /\ SubSeq(q, 1, Len(p)) = p

RegularFiles(t) == {p \in TreePaths : t[p].kind = "file"}

\* The Path field of a FileInfo is a string: its components and the
\* separator between them (a path of one component has none, the "/" of the
\* record then stands for nothing).  filepath.Rel returns the platform's
\* separator, filepath.ToSlash replaces it by "/".
Rel(p, win) == [parts |-> p, sep |-> IF win /\ Len(p) > 1 THEN "\\" ELSE "/"]
ToSlash(s) == [s EXCEPT !.sep = "/"]
\* filepath.Join(s.localPath, path) on the platform that produced the
\* string: the place in the local tree.
Join(s) == s.parts
\* localPath + ".tmp"
TempPath(p) == [p EXCEPT ![Len(p)] = @ \o ".tmp"]
\* Where an entry at or below "d" is once saferename has renamed "d" to
\* its set-aside name.
AsidePath(q) == [q EXCEPT ![1] = "d-orig.tmp"]

\* The FileInfo of the entry at p; hashed = FALSE: the MD5 could not be
\* computed and the field stays empty.
FileInfoOf(t, path, p, hashed) ==
    [Path |-> path,
     Size |-> Len(t[p].data),
     ModTime |-> t[p].modTime,
     IsDir |-> t[p].kind = "dir",
     MD5 |-> IF t[p].kind = "file" /\ hashed THEN CalculateMD5(t[p].data) ELSE NoHash]

Present(t) == SelectSeq(WalkOrder, LAMBDA p : t[p].kind # "none")

\* Server.handleListRequest: the walk starts with the listed directory
\* itself (Rel gives "."), Path is what filepath.Rel returns.
handleListRequest(t, win, unhashed) ==
    LET ps == Present(t)
    IN <<[Path |-> Rel(<<>>, win), Size |-> 0, ModTime |-> RemoteTime,
          IsDir |-> TRUE, MD5 |-> NoHash]>>
       \o [k \in DOMAIN ps |-> FileInfoOf(t, Rel(ps[k], win), ps[k], ps[k] \notin unhashed)]

\* Client.ListFiles: any failure (no connection, a response that does not
\* decode, a response with status error) is an error; otherwise the Files
\* of the response.
ListFilesEmptyOnError(fault, files) ==
    [err |-> FALSE, files |-> IF fault = "none" THEN files ELSE <<>>]

ListFiles(fault, files) ==
    IF fault = "none" THEN [err |-> FALSE, files |-> files]
    ELSE [err |-> TRUE, files |-> <<>>]

\* Syncer.getLocalFiles: the root is skipped, Path is ToSlash of Rel.
getLocalFiles(t, win, unhashed) ==
    LET ps == Present(t)
    IN [k \in DOMAIN ps |->
          FileInfoOf(t, ToSlash(Rel(ps[k], win)), ps[k], ps[k] \notin unhashed)]

\* Syncer.findFile: the index of the first entry with that Path, 0 for nil.
findFile(files, path) ==
    IF \E k \in DOMAIN files : files[k].Path = path
    THEN CHOOSE k \in DOMAIN files :
            /\ files[k].Path = path
            /\ \A m \in DOMAIN files : files[m].Path = path => k <= m
    ELSE 0

\* Syncer.isFileDifferent
isFileDifferent(file1, file2) ==
    IF file1.IsDir # file2.IsDir THEN TRUE
    ELSE IF file1.Size # file2.Size THEN TRUE
    ELSE IF file1.MD5 # NoHash /\ file2.MD5 # NoHash /\ file1.MD5 # file2.MD5 THEN TRUE
    ELSE FALSE

\* ------------------------------------------------- Client.DownloadFile
\* syncRemoteFirst downloads with client.DownloadFile(remote, local, index),
\* modelled as Client.GetFile(remote, local, 0), the download of pkg/net
\* (DownloadFile takes the index for the progress lines).  The files
\* of the trees are at most MinParallelSize long, so GetFile takes
\* getFileSequential.  This is the whole call in one step, on the local
\* tree t, for the destination p and the Listener's file src:
\*   fault   "connect": an error before the temporary file is opened;
\*           "transfer": an error once it is open; "rename": saferename fails
\*           and leaves the destination as it was;
\*   hashOk  the Listener could compute the MD5 it sends;
\*   cut     the bytes that arrive before the stream ends.
\* The temporary file is TempPath(p); when that is a file of the tree
\* already, it is opened as it is (no O_TRUNC), and the deferred os.Remove
\* removes it.  A directory at p makes the direct rename fail, so saferename
\* moves it aside with what is below it, renames the temporary file and
\* calls os.Remove on the set-aside name, whose error it ignores: os.Remove
\* removes an empty directory and fails on one that has entries, which
\* then stays in the tree under the set-aside name.
DownloadFile(t, p, src, fault, hashOk, cut) ==
    LET tmp == TempPath(p)
        inTree == tmp \in TreePaths
        temp0 == IF inTree /\ t[tmp].kind = "file" THEN t[tmp].data ELSE <<>>
        temp1 == WriteAt(temp0, 0, SubSeq(src, 1, Min(cut, Len(src))))
        File == FileRecord(src, hashOk)
        cleaned == IF inTree THEN [t EXCEPT ![tmp] = NoEntry] ELSE t
    IN IF fault = "connect" THEN [err |-> TRUE, tree |-> t]
       ELSE IF fault \in {"transfer", "rename"} THEN [err |-> TRUE, tree |-> cleaned]
       ELSE IF File.MD5 # NoHash /\ File.MD5 # CalculateMD5(temp1)
       THEN [err |-> TRUE, tree |-> cleaned]
       ELSE LET below == {q \in TreePaths : IsUnder(q, p) /\ t[q].kind # "none"}
                kept == IF t[p].kind = "dir" /\ below # {} THEN below \cup {p} ELSE {}
            IN [err |-> FALSE,
                tree |-> [q \in TreePaths |->
                            IF q = p THEN FileEntry(temp1, Now)
                            ELSE IF IsUnder(q, p) THEN NoEntry
                            ELSE IF \E k \in kept : AsidePath(k) = q
                            THEN t[CHOOSE k \in kept : AsidePath(k) = q]
                            ELSE cleaned[q]]]

\* ----------------------------------------------- Syncer.syncWithPeer
\* Where the run goes once entry i - 1 of a loop is done: the next entry of
\* the remote loop, else the deletion loop, else the return of nil.
Proceed(phase, i) ==
    IF phase = "remote" /\ i <= Len(remoteFiles)
    THEN [spc |-> "remote", idx |-> i, res |-> "none"]
    ELSE LET j == IF phase = "remote" THEN 1 ELSE i
         IN IF j <= Len(localFiles)
            THEN [spc |-> "delete", idx |-> j, res |-> "none"]
            ELSE [spc |-> "done", idx |-> 0, res |-> "ok"]

\* Where the run goes after a step of the remote loop that failed or not.
AfterEntryContinues(failed, cause) ==
    /\ spc' = Proceed("remote", idx + 1).spc
    /\ idx' = Proceed("remote", idx + 1).idx
    /\ syncResult' = Proceed("remote", idx + 1).res

AfterEntry(failed, cause) ==
    IF failed
    THEN /\ spc' = "done" /\ idx' = 0 /\ syncResult' = cause
    ELSE /\ spc' = Proceed("remote", idx + 1).spc
         /\ idx' = Proceed("remote", idx + 1).idx
         /\ syncResult' = Proceed("remote", idx + 1).res

\* Lines 66-80: os.MkdirAll(localPath) and client.ListFiles(remotePath).
\* fault "mkdir": MkdirAll fails; "connect", "decode": ListFiles gets no
\* connection or no JSON value; "status": the Listener's walk failed and it
\* answered with status error.  unhashed: the files whose MD5 the Listener
\* could not compute (none, or all of them).
SyncListFiles ==
    /\ spc = "start"
    /\ \E fault \in {"none", "mkdir", "connect", "decode", "status"},
          unhashed \in {{}, RegularFiles(remote)} :
         /\ fault # "none" => unhashed = {}
         /\ IF fault = "mkdir"
            THEN /\ spc' = "done" /\ syncResult' = "mkdir"
                 /\ UNCHANGED <<remoteFiles, listFault>>
            ELSE LET got == ListFiles(fault, handleListRequest(remote, windows, unhashed))
                 IN /\ listFault' = fault
                    /\ remoteFiles' = got.files
                    /\ IF got.err
                       THEN spc' = "done" /\ syncResult' = "list"
                       ELSE spc' = "locallist" /\ syncResult' = "none"
    /\ UNCHANGED <<windows, remote, local, run, localFiles, idx, firstResult,
                   localAtStart, log>>
    /\ UNCHANGED xferVars
    /\ UNCHANGED serveVars
    /\ UNCHANGED diffVars
    /\ UNCHANGED hostVars

\* Lines 85-90: getLocalFiles.  ok = FALSE: the walk fails.  unhashed: the
\* files whose MD5 could not be computed (none, or all of them).
SyncGetLocalFiles ==
    /\ spc = "locallist"
    /\ \E ok \in BOOLEAN, unhashed \in {{}, RegularFiles(local)} :
         /\ ~ok => unhashed = {}
         /\ IF ~ok
            THEN /\ spc' = "done" /\ syncResult' = "locallist"
                 /\ UNCHANGED <<localFiles, idx>>
            ELSE /\ localFiles' = getLocalFiles(local, windows, unhashed)
                 \* syncRemoteFirst starts: remoteFiles always holds the root
                 /\ spc' = "remote" /\ idx' = 1
                 /\ UNCHANGED syncResult
    /\ UNCHANGED <<windows, remote, local, run, remoteFiles, firstResult, listFault,
                   localAtStart, log>>
    /\ UNCHANGED xferVars
    /\ UNCHANGED serveVars
    /\ UNCHANGED diffVars
    /\ UNCHANGED hostVars

\* An entry of the log: what was done at entry idx, whether it succeeded,
\* and whether an I/O call of it failed for a cause outside the two trees.
Done(act, ok, fault) == [act |-> act, at |-> idx, ok |-> ok, fault |-> fault]

\* syncRemoteFirst lines 111-135: one turn of the loop over remoteFiles.
\* A directory is made with os.MkdirAll (ok = FALSE: it fails; it also
\* fails when a regular file is in the way).  A file is downloaded when
\* findFile gives no local entry or isFileDifferent holds, else skipped.
SyncRemoteEntry ==
    /\ spc = "remote"
    /\ LET remoteFile == remoteFiles[idx]
           p == Join(remoteFile.Path)
       IN IF remoteFile.IsDir
          THEN \E ok \in BOOLEAN :
                 LET failed == ~ok \/ (p # <<>> /\ local[p].kind = "file")
                 IN /\ local' = IF failed \/ p = <<>> THEN local
                                 ELSE [local EXCEPT ![p] = DirEntry]
                    /\ log' = Append(log, Done("mkdir", ~failed, ~ok))
                    /\ AfterEntry(failed, "mkdir")
          ELSE LET k == findFile(localFiles, remoteFile.Path)
               IN IF k = 0 \/ isFileDifferent(remoteFile, localFiles[k])
                  THEN \E fault \in {"none", "connect", "transfer", "rename"},
                          hashOk \in BOOLEAN, cut \in 0..Len(remote[p].data) :
                         LET got == DownloadFile(local, p, remote[p].data,
                                                 fault, hashOk, cut)
                         IN /\ local' = got.tree
                            /\ log' = Append(log, Done("download", ~got.err,
                                                   \/ fault # "none" \/ ~hashOk
                                                   \/ cut < Len(remote[p].data)))
                            /\ AfterEntry(got.err, "download")
                  ELSE /\ log' = Append(log, Done("skip", TRUE, FALSE))
                       /\ AfterEntry(FALSE, "none")
                       /\ UNCHANGED local
    /\ UNCHANGED <<windows, remote, run, remoteFiles, localFiles, firstResult,
                   listFault, localAtStart>>
    /\ UNCHANGED xferVars
    /\ UNCHANGED serveVars
    /\ UNCHANGED diffVars
    /\ UNCHANGED hostVars

\* Lines 146-148: the error of os.RemoveAll is printed and the loop goes
\* on with the next entry of localFiles; after the last the run returns nil.
AfterRemoveStopsOnFailure(failed) ==
    IF failed
    THEN spc' = "done" /\ idx' = 0 /\ syncResult' = "remove"
    ELSE /\ spc' = Proceed("delete", idx + 1).spc
         /\ idx' = Proceed("delete", idx + 1).idx
         /\ syncResult' = Proceed("delete", idx + 1).res

AfterRemove(failed) ==
    /\ spc' = Proceed("delete", idx + 1).spc
    /\ idx' = Proceed("delete", idx + 1).idx
    /\ syncResult' = Proceed("delete", idx + 1).res

\* syncRemoteFirst lines 137-154: one turn of the loop over localFiles.  An
\* entry findFile does not find in remoteFiles, and that os.Stat still
\* finds, is removed with os.RemoveAll; ok = FALSE: RemoveAll fails (the
\* entry stays, of what is below it the part gone may be removed), which
\* is printed.  After the last entry the run returns nil.
SyncDeleteEntry ==
    /\ spc = "delete"
    /\ LET localFile == localFiles[idx]
           relPath == ToSlash(localFile.Path)
           p == Join(localFile.Path)
           below == {q \in TreePaths : IsUnder(q, p)}
       IN IF findFile(remoteFiles, relPath) = 0 /\ local[p].kind # "none"
          THEN \E ok \in BOOLEAN, gone \in SUBSET below :
                 /\ ok => gone = below
                 /\ local' = [q \in TreePaths |->
                                IF q \in gone \/ (ok /\ q = p) THEN NoEntry
                                ELSE local[q]]
                 /\ log' = Append(log, Done("remove", ok, ~ok))
                 /\ AfterRemove(~ok)
          ELSE /\ UNCHANGED <<local, log>>
               /\ AfterRemove(FALSE)
    /\ UNCHANGED <<windows, remote, run, remoteFiles, localFiles, firstResult,
                   listFault, localAtStart>>
    /\ UNCHANGED xferVars
    /\ UNCHANGED serveVars
    /\ UNCHANGED diffVars
    /\ UNCHANGED hostVars

\* After a run that returned nil the program is run again, on the tree
\* the first run left and against the same remote tree.
SyncAgain ==
    /\ spc = "done" /\ run = "first" /\ syncResult = "ok"
    /\ run' = "second"
    /\ firstResult' = syncResult
    /\ spc' = "start"
    /\ syncResult' = "none"
    /\ remoteFiles' = <<>> /\ localFiles' = <<>> /\ idx' = 0
    /\ listFault' = "none"
    /\ localAtStart' = local
    /\ log' = <<>>
    /\ UNCHANGED <<windows, remote, local>>
    /\ UNCHANGED xferVars
    /\ UNCHANGED serveVars
    /\ UNCHANGED diffVars
    /\ UNCHANGED hostVars

\* ------------------------------------------------------------ the trees
RemoteA == {NoEntry, FileEntry(<<1>>, RemoteTime)}
RemoteATmp == {NoEntry, FileEntry(<<2>>, RemoteTime)}
LocalA == {NoEntry, FileEntry(<<1>>, LocalTime), FileEntry(<<2>>, LocalTime),
           FileEntry(<<1, 2>>, LocalTime)}
LocalATmp == {NoEntry, FileEntry(<<2>>, LocalTime), FileEntry(<<2, 2>>, LocalTime)}
\* "d" and "d/a": nothing, a file "d", a directory "d" without or with "a".
RemoteD == {<<NoEntry, NoEntry>>, <<FileEntry(<<1>>, RemoteTime), NoEntry>>,
            <<DirEntry, FileEntry(<<1>>, RemoteTime)>>}
LocalD == {<<NoEntry, NoEntry>>, <<FileEntry(<<1>>, LocalTime), NoEntry>>,
           <<DirEntry, NoEntry>>, <<DirEntry, FileEntry(<<1>>, LocalTime)>>}

Tree(a, atmp, d) ==
    [p \in TreePaths |->
        CASE p = <<"a">> -> a
          [] p = <<"a.tmp">> -> atmp
          [] p = <<"d">> -> d[1]
          [] p = <<"d", "a">> -> d[2]
          [] OTHER -> NoEntry]

RemoteTrees == {Tree(a, t, d) : a \in RemoteA, t \in RemoteATmp, d \in RemoteD}
LocalTrees == {Tree(a, t, d) : a \in LocalA, t \in LocalATmp, d \in LocalD}

SyncIdle ==
    /\ windows = FALSE
    /\ remote = Tree(NoEntry, NoEntry, <<NoEntry, NoEntry>>)
    /\ local = Tree(NoEntry, NoEntry, <<NoEntry, NoEntry>>)
    /\ run = "none" /\ spc = "idle"
    /\ remoteFiles = <<>> /\ localFiles = <<>> /\ idx = 0
    /\ syncResult = "none" /\ firstResult = "none" /\ listFault = "none"
    /\ localAtStart = Tree(NoEntry, NoEntry, <<NoEntry, NoEntry>>)
    /\ log = <<>>

XferIdle ==
    /\ op = "none"
    /\ fs = [p \in Paths |-> NoFile]
    /\ destBefore = NoFile
    /\ pc = "idle"
    /\ advertised = NoHash
    /\ strategy = "none"
    /\ srcPos = 0 /\ dstPos = 0
    /\ tasks = NoTasks
    /\ published = NoFile
    /\ tempOpened = FALSE
    /\ resp = NoResp
    /\ conn = [File |-> NoResp, data |-> <<>>]
    /\ spawnedBy = "none"
    /\ calls = <<>>
    /\ errChan = MakeChan(0)
    /\ result = "none"

SyncInit ==
    /\ windows \in BOOLEAN
    /\ remote \in RemoteTrees
    /\ local \in LocalTrees
    /\ run = "first" /\ spc = "start"
    /\ remoteFiles = <<>> /\ localFiles = <<>> /\ idx = 0
    /\ syncResult = "none" /\ firstResult = "none" /\ listFault = "none"
    /\ localAtStart = local
    /\ log = <<>>

SyncNext ==
    \/ SyncListFiles \/ SyncGetLocalFiles \/ SyncRemoteEntry \/ SyncDeleteEntry
    \/ SyncAgain

\* ------------------------------------------------------- the Listener
\* Server.Start and the handlers it starts, seen from the wire.

\* The Request a client builds: getFileSequential sets Offset only,
\* GetFileBlock sets BlockIndex and BlockSize (client.go:255-259, 438-443).
SequentialRequest(offset) ==
    [by |-> "getFileSequential", Offset |-> offset, BlockIndex |-> 0, BlockSize |-> 0]
BlockRequest(blockIndex) ==
    [by |-> "GetFileBlock", Offset |-> 0, BlockIndex |-> blockIndex,
     BlockSize |-> BlockSize]
ClientRequests ==
    {SequentialRequest(o) : o \in 0..MaxSize} \cup {BlockRequest(b) : b \in BlockIds}

\* json.Encoder on a Request: "offset" is always written, "blockIndex" and
\* "blockSize" carry omitempty and are left out when they are 0.  A field
\* of the message is << >> (absent) or <<value>>.
EncodeRequest(req) ==
    [offset |-> <<req.Offset>>,
     blockIndex |-> IF req.BlockIndex = 0 THEN <<>> ELSE <<req.BlockIndex>>,
     blockSize |-> IF req.BlockSize = 0 THEN <<>> ELSE <<req.BlockSize>>]

\* json.Decoder into a zero Request: an absent field keeps the zero value.
DecodeRequest(msg) ==
    [Offset |-> IF msg.offset = <<>> THEN 0 ELSE msg.offset[1],
     BlockIndex |-> IF msg.blockIndex = <<>> THEN 0 ELSE msg.blockIndex[1],
     BlockSize |-> IF msg.blockSize = <<>> THEN 0 ELSE msg.blockSize[1]]

\* A connection nobody has made yet.
NoConn ==
    [pc |-> "none", by |-> "none", msg |-> EncodeRequest(SequentialRequest(0)),
     req |-> DecodeRequest(EncodeRequest(SequentialRequest(0))),
     status |-> "none", framing |-> <<>>, sent |-> <<>>,
     pos |-> 0, remaining |-> 0, broken |-> FALSE]

\* Server.Start lines 81-88: net.Listen; ok = FALSE: it fails and Start
\* returns the error.
StartListen ==
    /\ startPc = "start"
    /\ \E ok \in BOOLEAN :
         IF ok
         THEN /\ lis' = "open" /\ startPc' = "accept"
              /\ UNCHANGED startResult
         ELSE /\ startPc' = "returned" /\ startResult' = "error"
              /\ UNCHANGED lis
    /\ UNCHANGED <<acceptErrors, served, conns>>
    /\ UNCHANGED syncVars
    /\ UNCHANGED xferVars
    /\ UNCHANGED diffVars
    /\ UNCHANGED hostVars

\* Lines 90-98: Accept returns a connection, for which a goroutine running
\* handleConnection is started; the client has sent its request on it.
StartAccept(c) ==
    /\ startPc = "accept" /\ lis = "open"
    /\ conns[c].pc = "none"
    /\ \E r \in ClientRequests :
         conns' = [conns EXCEPT ![c] =
                     [NoConn EXCEPT !.pc = "decode", !.by = r.by,
                                    !.msg = EncodeRequest(r)]]
    /\ UNCHANGED <<lis, startPc, startResult, acceptErrors, served>>
    /\ UNCHANGED syncVars
    /\ UNCHANGED xferVars
    /\ UNCHANGED diffVars
    /\ UNCHANGED hostVars

\* Lines 91-93: Accept returns an error, which is printed: from an open
\* listener the error is a transient one, from a closed listener every
\* Accept returns an error. acceptErrors counts them up to MaxAcceptErrors.
StartAcceptError ==
    /\ startPc = "accept" /\ lis \in {"open", "closed"}
    /\ acceptErrors' = IF acceptErrors < MaxAcceptErrors
                       THEN acceptErrors + 1 ELSE acceptErrors
    /\ startPc' = "failed"
    /\ UNCHANGED <<lis, startResult, served, conns>>
    /\ UNCHANGED syncVars
    /\ UNCHANGED xferVars
    /\ UNCHANGED diffVars
    /\ UNCHANGED hostVars

\* Line 94: continue, whatever the error was; the loop calls Accept again.
StartContinue ==
    /\ startPc = "failed"
    /\ startPc' = "accept"
    /\ UNCHANGED <<lis, startResult, acceptErrors, served, conns>>
    /\ UNCHANGED syncVars
    /\ UNCHANGED xferVars
    /\ UNCHANGED diffVars
    /\ UNCHANGED hostVars

\* Server.Stop, which StopServer calls: it closes the listening socket.
Stop ==
    /\ lis = "open"
    /\ lis' = "closed"
    /\ UNCHANGED <<startPc, startResult, acceptErrors, served, conns>>
    /\ UNCHANGED syncVars
    /\ UNCHANGED xferVars
    /\ UNCHANGED diffVars
    /\ UNCHANGED hostVars

\* handleConnection lines 102-119: the request is decoded and, for a file
\* request, handed to handleFileRequest with its Offset and BlockIndex.
HandleConnection(c) ==
    /\ conns[c].pc = "decode"
    /\ conns' = [conns EXCEPT ![c].req = DecodeRequest(conns[c].msg),
                              ![c].pc = "file"]
    /\ UNCHANGED <<lis, startPc, startResult, acceptErrors, served>>
    /\ UNCHANGED syncVars
    /\ UNCHANGED xferVars
    /\ UNCHANGED diffVars
    /\ UNCHANGED hostVars

\* handleFileRequest lines 192-272: a missing file is answered with an
\* error response; else the response with the FileInfo, the Encoder's
\* newline and the sentinel are written, the range is computed and the
\* file is positioned at its start.
HandleFileHeader(c) ==
    /\ conns[c].pc = "file"
    /\ LET req == conns[c].req
       IN IF served = NoFile
          THEN conns' = [conns EXCEPT ![c].status = "error", ![c].pc = "closed"]
          ELSE conns' = [conns EXCEPT
                           ![c].status = "ok",
                           ![c].framing = <<NL, NL>>,
                           ![c].pos = TransferOffset(req.Offset, req.BlockIndex),
                           ![c].remaining =
                               TransferSize(Len(served), req.Offset, req.BlockIndex),
                           ![c].pc = "stream"]
    /\ UNCHANGED <<lis, startPc, startResult, acceptErrors, served>>
    /\ UNCHANGED syncVars
    /\ UNCHANGED xferVars
    /\ UNCHANGED diffVars
    /\ UNCHANGED hostVars

\* Lines 281-321: one turn of the send loop: a Read of at most one buffer,
\* the Write of what was read.  ok = FALSE: the Read or the Write fails and
\* the handler returns.  In every case the deferred conn.Close runs when
\* the handler returns.
HandleFileStream(c) ==
    /\ conns[c].pc = "stream"
    /\ LET n == Min(BufferSize, conns[c].remaining)
           got == ReadAt(served, conns[c].pos, n)
       IN IF conns[c].remaining > 0 /\ Len(got) > 0
          THEN \E ok \in BOOLEAN :
                 IF ok
                 THEN conns' = [conns EXCEPT ![c].sent = @ \o got,
                                             ![c].pos = @ + Len(got),
                                             ![c].remaining = @ - Len(got)]
                 ELSE conns' = [conns EXCEPT ![c].broken = TRUE, ![c].pc = "closed"]
          ELSE conns' = [conns EXCEPT ![c].pc = "closed"]
    /\ UNCHANGED <<lis, startPc, startResult, acceptErrors, served>>
    /\ UNCHANGED syncVars
    /\ UNCHANGED xferVars
    /\ UNCHANGED diffVars
    /\ UNCHANGED hostVars

ServeIdle ==
    /\ lis = "none" /\ startPc = "idle" /\ startResult = "none"
    /\ acceptErrors = 0
    /\ served = NoFile
    /\ conns = [c \in ConnIds |-> NoConn]

ServeInit ==
    /\ lis = "none" /\ startPc = "start" /\ startResult = "none"
    /\ acceptErrors = 0
    /\ served \in Contents \cup {NoFile}
    /\ conns = [c \in ConnIds |-> NoConn]

\* The steps of the Start goroutine.
StartNext ==
    \/ StartListen
    \/ StartAcceptError
    \/ StartContinue
    \/ \E c \in ConnIds : StartAccept(c)

ServeNext ==
    \/ StartListen
    \/ StartAcceptError
    \/ StartContinue
    \/ Stop
    \/ \E c \in ConnIds :
         StartAccept(c) \/ HandleConnection(c) \/ HandleFileHeader(c)
         \/ HandleFileStream(c)

\* ------------------------------------------------- the block diff calls
\* diff.CalculateFileBlocks on two files and diff.FindDifferentBlocks on
\* the two listings, as copyFileDelta calls them (transfer.go:192-210).
DiffContents == UNION {[1..n -> DataBytes] : n \in 0..MaxDiffSize}

DiffCalculateSource ==
    /\ diffPc = "source"
    /\ srcBlocks' = CalculateFileBlocks(diffSource)
    /\ diffPc' = "dest"
    /\ UNCHANGED <<diffSource, diffDest, dstBlocks, diffBlocks>>
    /\ UNCHANGED <<cmpVars, splitVars>>
    /\ UNCHANGED <<xferVars, syncVars, serveVars>>
    /\ UNCHANGED hostVars

DiffCalculateDest ==
    /\ diffPc = "dest"
    /\ dstBlocks' = CalculateFileBlocks(diffDest)
    /\ diffPc' = "find"
    /\ UNCHANGED <<diffSource, diffDest, srcBlocks, diffBlocks>>
    /\ UNCHANGED <<cmpVars, splitVars>>
    /\ UNCHANGED <<xferVars, syncVars, serveVars>>
    /\ UNCHANGED hostVars

DiffFind ==
    /\ diffPc = "find"
    /\ diffBlocks' = FindDifferentBlocks(srcBlocks, dstBlocks)
    /\ diffPc' = "found"
    /\ UNCHANGED <<diffSource, diffDest, srcBlocks, dstBlocks>>
    /\ UNCHANGED <<cmpVars, splitVars>>
    /\ UNCHANGED <<xferVars, syncVars, serveVars>>
    /\ UNCHANGED hostVars

\* -------------------------------------------------- diff.CompareFiles
\* What os.Stat finds at a path: nothing, a regular file or a directory,
\* with its size and permission bits (the size of a directory is whatever
\* the file system reports).
NoStat == [kind |-> "none", data |-> <<>>, size |-> 0, perm |-> "none"]
Perms == {"rw-r--r--", "rw-------"}
StatEntries ==
    {NoStat}
    \cup {[kind |-> "file", data |-> c, size |-> Len(c), perm |-> p] :
             c \in Contents, p \in Perms}
    \cup {[kind |-> "dir", data |-> <<>>, size |-> n, perm |-> p] :
             n \in 0..1, p \in Perms}

\* CompareFiles lines 21-53: the pair (different, err != nil) returned for
\* the two paths.  fault "source" / "dest": os.Stat of that path fails for
\* another reason than a missing file.
CompareFiles(source, dest, fault) ==
    IF source.kind = "none" \/ fault = "source" THEN <<TRUE, TRUE>>
    ELSE IF dest.kind = "none" /\ fault # "dest" THEN <<TRUE, FALSE>>
    ELSE IF fault = "dest" THEN <<TRUE, TRUE>>
    ELSE IF source.size # dest.size THEN <<TRUE, FALSE>>
    ELSE IF (source.kind = "dir") # (dest.kind = "dir") THEN <<TRUE, FALSE>>
    ELSE IF source.perm # dest.perm THEN <<TRUE, FALSE>>
    ELSE <<FALSE, FALSE>>

CompareCall ==
    /\ cmpPc = "call"
    /\ \E fault \in {"none", "source", "dest"} :
         /\ different' = CompareFiles(cmpSource, cmpDest, fault)[1]
         /\ cmpErr' = CompareFiles(cmpSource, cmpDest, fault)[2]
    /\ cmpPc' = "returned"
    /\ UNCHANGED <<cmpSource, cmpDest>>
    /\ UNCHANGED <<blockVars, splitVars>>
    /\ UNCHANGED <<xferVars, syncVars, serveVars>>
    /\ UNCHANGED hostVars

CompareIdle ==
    /\ cmpSource = NoStat /\ cmpDest = NoStat
    /\ different = FALSE /\ cmpErr = FALSE
    /\ cmpPc = "idle"

CompareInit ==
    /\ cmpSource \in StatEntries /\ cmpDest \in StatEntries
    /\ different = FALSE /\ cmpErr = FALSE
    /\ cmpPc = "call"

CompareNext == CompareCall

BlocksIdle ==
    /\ diffSource = <<>> /\ diffDest = <<>>
    /\ srcBlocks = <<>> /\ dstBlocks = <<>> /\ diffBlocks = <<>>
    /\ diffPc = "idle"

\* ------------------------------------------- the split into blocks
Splitters == {"copyFileParallel", "getFileParallel", "handleFileRequest"}
SplitBlockIds == 0..(CeilDiv(MaxSplitSize, BlockSize) - 1)
NoRange == [off |-> -1, len |-> 0]

\* copyFileParallel starts the goroutine of block i of [0, splitSize),
\* which computes its range (transfer.go:332-342).
SplitCopyBlock(i) ==
    /\ splitSize > 0
    /\ i < CeilDiv(splitSize, BlockSize)
    /\ ranges["copyFileParallel"][i] = NoRange
    /\ ranges' = [ranges EXCEPT !["copyFileParallel"][i] =
                     [off |-> ParallelBlock(0, splitSize, i).off,
                      len |-> ParallelBlock(0, splitSize, i).remaining]]
    /\ UNCHANGED splitSize
    /\ UNCHANGED <<blockVars, cmpVars>>
    /\ UNCHANGED <<xferVars, syncVars, serveVars>>
    /\ UNCHANGED hostVars

\* getFileParallel starts GetFileBlock for block i < NumBlocks of the
\* FileInfo (client.go:372-394, 470-483).
SplitGetBlock(i) ==
    /\ splitSize > 0
    /\ i < FileRecord(AllOf(splitSize, 1), TRUE).NumBlocks
    /\ ranges["getFileParallel"][i] = NoRange
    /\ ranges' = [ranges EXCEPT !["getFileParallel"][i] =
                     GetFileBlockRange(splitSize, i)]
    /\ UNCHANGED splitSize
    /\ UNCHANGED <<blockVars, cmpVars>>
    /\ UNCHANGED <<xferVars, syncVars, serveVars>>
    /\ UNCHANGED hostVars

\* handleFileRequest clips the range of the block index i a GetFileBlock
\* asks for (server.go:256-266).
SplitServeBlock(i) ==
    /\ splitSize > 0
    /\ i < CeilDiv(splitSize, BlockSize)
    /\ ranges["handleFileRequest"][i] = NoRange
    /\ ranges' = [ranges EXCEPT !["handleFileRequest"][i] =
                     [off |-> TransferOffset(0, i),
                      len |-> TransferSize(splitSize, 0, i)]]
    /\ UNCHANGED splitSize
    /\ UNCHANGED <<blockVars, cmpVars>>
    /\ UNCHANGED <<xferVars, syncVars, serveVars>>
    /\ UNCHANGED hostVars

SplitIdle ==
    /\ splitSize = 0
    /\ ranges = [f \in Splitters |-> [i \in SplitBlockIds |-> NoRange]]

\* The parallel transfers are taken for files larger than MinParallelSize.
SplitInit ==
    /\ splitSize \in (MinParallelSize + 1)..MaxSplitSize
    /\ ranges = [f \in Splitters |-> [i \in SplitBlockIds |-> NoRange]]

SplitNext ==
    \E i \in SplitBlockIds : SplitCopyBlock(i) \/ SplitGetBlock(i) \/ SplitServeBlock(i)

DiffIdle == BlocksIdle /\ CompareIdle /\ SplitIdle

DiffInit ==
    /\ diffSource \in DiffContents /\ diffDest \in DiffContents
    /\ srcBlocks = <<>> /\ dstBlocks = <<>> /\ diffBlocks = <<>>
    /\ diffPc = "source"
    /\ CompareIdle /\ SplitIdle

DiffNext == DiffCalculateSource \/ DiffCalculateDest \/ DiffFind

\* --------------------------------------- Server.handleConnection, paths
\* A path is its components and whether it starts at the file system's
\* root; ".." is a component like any other until the path is cleaned.
\* The empty string and "." are both the relative path without components.
AbsPath(comps) == [abs |-> TRUE, comps |-> comps]
RelPath(comps) == [abs |-> FALSE, comps |-> comps]
\* Server.rootDir = "".
NoRoot == [abs |-> FALSE, comps |-> <<"">>]
\* The working directory of the Listener's process.
Cwd == <<"srv">>

\* filepath.Clean: a ".." removes the component before it; at the root it
\* is dropped, at the start of a relative path it stays.
RECURSIVE CleanFrom(_, _, _)
CleanFrom(abs, comps, acc) ==
    IF comps = <<>> THEN acc
    ELSE LET c == Head(comps)
         IN IF c # ".." THEN CleanFrom(abs, Tail(comps), Append(acc, c))
            ELSE IF acc # <<>> /\ acc[Len(acc)] # ".."
                 THEN CleanFrom(abs, Tail(comps), SubSeq(acc, 1, Len(acc) - 1))
            ELSE IF abs THEN CleanFrom(abs, Tail(comps), acc)
            ELSE CleanFrom(abs, Tail(comps), Append(acc, ".."))

Clean(p) == [abs |-> p.abs, comps |-> CleanFrom(p.abs, p.comps, <<>>)]

\* filepath.Join(a, b), a not empty: the two joined by a separator (a
\* leading separator of b is swallowed), then cleaned.
PathJoin(a, b) == Clean([abs |-> a.abs, comps |-> a.comps \o b.comps])

\* Lines 129-134, 194-199: the path a request names, on the Listener.
FullPath(root, path) == IF root = NoRoot THEN path ELSE PathJoin(root, path)

\* The absolute, clean path the operating system uses for p.
OnDisk(p) == IF p.abs THEN Clean(p).comps ELSE Clean(AbsPath(Cwd \o p.comps)).comps

\* filepath.Rel(base, targ): both cleaned; an error when only one of them
\* is absolute or when base keeps a ".." the target does not share.
NoRel == [err |-> TRUE, path |-> RelPath(<<>>)]
RECURSIVE CommonLen(_, _)
CommonLen(a, b) ==
    IF a = <<>> \/ b = <<>> \/ Head(a) # Head(b) THEN 0
    ELSE 1 + CommonLen(Tail(a), Tail(b))
PathRel(base, targ) ==
    LET b == Clean(base).comps
        t == Clean(targ).comps
        k == CommonLen(b, t)
    IN IF base.abs # targ.abs THEN NoRel
       ELSE IF \E i \in (k + 1)..Len(b) : b[i] = ".." THEN NoRel
       ELSE [err |-> FALSE,
             path |-> RelPath([i \in 1..(Len(b) - k) |-> ".."] \o SubSeq(t, k + 1, Len(t)))]

\* ------------------------------------------------------------ the disk
\* The Listener's file system, in the lexical order filepath.Walk visits
\* it: the served directory /srv and, beside it, /etc.
DiskOrder == << <<"etc">>, <<"etc", "a">>, <<"srv">>, <<"srv", "a">>,
                <<"srv", "d">>, <<"srv", "d", "a">> >>
DiskPaths == {DiskOrder[k] : k \in DOMAIN DiskOrder}
DiskDirs == { <<"etc">>, <<"srv">>, <<"srv", "d">> }
DiskData(q) ==
    CASE q = <<"etc", "a">> -> <<1, 2>>
      [] q = <<"srv", "a">> -> <<1>>
      [] q = <<"srv", "d", "a">> -> <<2>>
      [] OTHER -> <<>>
\* os.Stat / os.Lstat
Exists(p) == OnDisk(p) \in DiskPaths
IsDir(p) == OnDisk(p) \in DiskDirs
InRoot(root, q) ==
    LET r == OnDisk(root) IN q = r \/ (Len(q) > Len(r) /\ SubSeq(q, 1, Len(r)) = r)

\* ------------------------------------------------------ requests
ReqPaths ==
    { RelPath(<<>>), RelPath(<<"a">>), RelPath(<<"d">>), RelPath(<<"d", "a">>),
      RelPath(<<"x">>), RelPath(<<"..", "etc">>), RelPath(<<"..", "etc", "a">>),
      AbsPath(<<"etc", "a">>), AbsPath(<<"srv", "d">>) }
Roots == {NoRoot, AbsPath(<<"srv">>), RelPath(<<>>)}
HandlerRequest(type, path, blockIndex) ==
    [Type |-> type, Path |-> path, Offset |-> 0, BlockIndex |-> blockIndex]
\* What a client can put on a connection: a list or file request, a
\* request of a type the Listener does not know, or bytes that are no JSON.
Garbled == HandlerRequest("garbled", RelPath(<<>>), 0)
WireRequests ==
    {HandlerRequest("list", p, 0) : p \in ReqPaths}
    \cup {HandlerRequest("file", p, b) : p \in ReqPaths, b \in 0..1}
    \cup {HandlerRequest("stat", RelPath(<<"a">>), 0), Garbled}

\* ------------------------------------------------------ responses
NoInfo == [Path |-> RelPath(<<>>), Size |-> -1, IsDir |-> FALSE, MD5 |-> NoHash,
           from |-> <<>>]
\* The FileInfo of the entry at walkPath (lines 154-171) or of the file
\* of a file request (lines 232-241); "from" is the place on the disk the
\* record was made from.
MakeFileInfo(path, walkPath) ==
    [Path |-> path,
     Size |-> Len(DiskData(OnDisk(walkPath))),
     IsDir |-> IsDir(walkPath),
     MD5 |-> IF IsDir(walkPath) THEN NoHash ELSE CalculateMD5(DiskData(OnDisk(walkPath))),
     from |-> OnDisk(walkPath)]
\* A Response as json.Encoder writes it: files and file carry omitempty, an
\* empty list and a nil pointer are left out.
ErrorResponse == [Status |-> "error", Message |-> TRUE, Files |-> <<>>, File |-> NoInfo]
ListResponseWithFile(files) ==
    [Status |-> "ok", Message |-> FALSE, Files |-> files, File |-> files[1]]

ListResponse(files) == [Status |-> "ok", Message |-> FALSE, Files |-> files, File |-> NoInfo]

FileResponse(info) == [Status |-> "ok", Message |-> FALSE, Files |-> <<>>, File |-> info]

\* filepath.Walk(fullPath): the entry itself, under the name it was given,
\* then everything below it, each with its path relative to the request
\* path (no root) or to the root (lines 143-149).
WalkPaths(fullPath) ==
    LET top == OnDisk(fullPath)
    IN SelectSeq(DiskOrder, LAMBDA q : q = top \/ IsUnder(q, top))
Walked(root, path) ==
    LET fullPath == FullPath(root, path)
        walk == WalkPaths(fullPath)
        top == OnDisk(fullPath)
        \* the walkPath of an entry: fullPath joined with the names below it
        walkPath(q) == IF q = top THEN fullPath
                       ELSE PathJoin(fullPath, RelPath(SubSeq(q, Len(top) + 1, Len(q))))
        rel(q) == IF root = NoRoot THEN PathRel(path, walkPath(q)) ELSE PathRel(root, walkPath(q))
    IN [err |-> ~Exists(fullPath) \/ \E k \in DOMAIN walk : rel(walk[k]).err,
        files |-> [k \in DOMAIN walk |-> MakeFileInfo(rel(walk[k]).path, walkPath(walk[k]))],
        used |-> {top} \cup {walk[k] : k \in DOMAIN walk}]

\* ------------------------------------------------------ the handler
NoHandler ==
    [pc |-> "none", open |-> FALSE, req |-> Garbled, decoded |-> 0,
     resps |-> <<>>, raw |-> <<>>, used |-> {}, pos |-> 0, remaining |-> 0,
     broken |-> FALSE]

\* The handler returns: the deferred conn.Close() of line 103 runs.
ReturnsLeavingOpen(h) == [h EXCEPT !.pc = "returned"]

Returns(h) == [h EXCEPT !.pc = "returned", !.open = FALSE]

\* json.NewEncoder(conn).Encode(&resp): ok = FALSE: the write fails and
\* nothing of the response is on the connection.
Encode(h, r, ok) ==
    IF ok THEN [h EXCEPT !.resps = Append(@, r)] ELSE [h EXCEPT !.broken = TRUE]

\* Server.sendError (lines 332-340), after which every caller returns.
SendErrorAndReturn(h, ok) == Returns(Encode(h, ErrorResponse, ok))

\* handleConnection lines 107-123: one Decode; a request that cannot be
\* decoded (or a connection that was closed without one) and a request of
\* an unknown type are answered with an error.
HandleDecode ==
    /\ hconn.pc = "accepted"
    /\ \E ok \in BOOLEAN :
         IF wire = <<>> \/ Head(wire).Type = "garbled"
         THEN /\ hconn' = SendErrorAndReturn(hconn, ok)
              /\ wire' = IF wire = <<>> THEN wire ELSE Tail(wire)
         ELSE LET req == Head(wire)
                  h == [hconn EXCEPT !.req = req, !.decoded = @ + 1]
              IN /\ wire' = Tail(wire)
                 /\ hconn' = IF req.Type \in {"list", "file"}
                             THEN [h EXCEPT !.pc = req.Type]
                             ELSE SendErrorAndReturn(h, ok)
    /\ UNCHANGED <<rootDir, client>>
    /\ UNCHANGED shimVars
    /\ UNCHANGED <<xferVars, syncVars, serveVars, diffVars>>

\* handleListRequest (lines 127-189).
HandleListRequest ==
    /\ hconn.pc = "list"
    /\ \E ok \in BOOLEAN :
         LET w == Walked(rootDir, hconn.req.Path)
             h == [hconn EXCEPT !.used = @ \cup w.used]
         IN hconn' = IF w.err THEN SendErrorAndReturn(h, ok)
                     ELSE Returns(Encode(h, ListResponse(w.files), ok))
    /\ UNCHANGED <<rootDir, wire, client>>
    /\ UNCHANGED shimVars
    /\ UNCHANGED <<xferVars, syncVars, serveVars, diffVars>>

\* Lines 201-218: the request is refused when os.Stat fails, when the path
\* is a directory or when os.Open fails.
FileRequestRefusedIfMissing(fullPath, fault) ==
    ~Exists(fullPath) \/ fault = "open"

FileRequestRefused(fullPath, fault) ==
    ~Exists(fullPath) \/ IsDir(fullPath) \/ fault = "open"

\* handleFileRequest lines 192-272: Stat, Open and the hash of fullPath,
\* the response with the FileInfo, the sentinel, the range.  fault "open":
\* os.Open fails; "encode": the response cannot be written.
HandleFileRequest ==
    /\ hconn.pc = "file"
    /\ \E fault \in {"none", "open", "encode"}, ok \in BOOLEAN :
         LET req == hconn.req
             fullPath == FullPath(rootDir, req.Path)
             h == [hconn EXCEPT !.used = @ \cup {OnDisk(fullPath)}]
             size == Len(DiskData(OnDisk(fullPath)))
         IN hconn' =
              IF FileRequestRefused(fullPath, fault)
              THEN SendErrorAndReturn(h, ok)
              ELSE IF fault = "encode" THEN Returns([h EXCEPT !.broken = TRUE])
              ELSE [Encode(h, FileResponse(MakeFileInfo(req.Path, fullPath)), TRUE)
                      EXCEPT !.raw = <<NL>>,
                             !.pos = TransferOffset(req.Offset, req.BlockIndex),
                             !.remaining = TransferSize(size, req.Offset, req.BlockIndex),
                             !.pc = "stream"]
    /\ UNCHANGED <<rootDir, wire, client>>
    /\ UNCHANGED shimVars
    /\ UNCHANGED <<xferVars, syncVars, serveVars, diffVars>>

\* Lines 281-329: one turn of the send loop, or its end.  ok = FALSE: the
\* Read of the file or the Write on the connection fails.
HandleFileSend ==
    /\ hconn.pc = "stream"
    /\ LET data == DiskData(OnDisk(FullPath(rootDir, hconn.req.Path)))
           got == ReadAt(data, hconn.pos, Min(BufferSize, hconn.remaining))
       IN IF hconn.remaining > 0 /\ Len(got) > 0
          THEN \E ok \in BOOLEAN :
                 hconn' = IF ok
                          THEN [hconn EXCEPT !.raw = @ \o got, !.pos = @ + Len(got),
                                             !.remaining = @ - Len(got)]
                          ELSE Returns([hconn EXCEPT !.broken = TRUE])
          ELSE hconn' = Returns(hconn)
    /\ UNCHANGED <<rootDir, wire, client>>
    /\ UNCHANGED shimVars
    /\ UNCHANGED <<xferVars, syncVars, serveVars, diffVars>>

\* Client.ListFiles lines 141-151 and Client.GetFile lines 167-181: the
\* response is decoded, which fails when the connection ends without one;
\* a status other than ok, or (GetFile) a response without file record, is
\* returned as an error.  Only after that GetFile goes on to make the
\* destination directory and the temporary file.
NoClient == [pc |-> "none", err |-> FALSE, files |-> <<>>, file |-> NoInfo]
ClientReceive ==
    /\ client.pc = "waiting"
    /\ hconn.resps # <<>> \/ hconn.pc = "returned"
    /\ client' =
         IF hconn.resps = <<>> \/ hconn.resps[1].Status # "ok"
         THEN [client EXCEPT !.pc = "returned", !.err = TRUE]
         ELSE IF hconn.req.Type = "list"
         THEN [client EXCEPT !.pc = "returned", !.files = hconn.resps[1].Files]
         ELSE IF hconn.resps[1].File = NoInfo
         THEN [client EXCEPT !.pc = "returned", !.err = TRUE]
         ELSE [client EXCEPT !.pc = "download", !.file = hconn.resps[1].File]
    /\ UNCHANGED <<rootDir, wire, hconn>>
    /\ UNCHANGED shimVars
    /\ UNCHANGED <<xferVars, syncVars, serveVars, diffVars>>

\* syncRemoteFirst lines 127-128: the path of the file request for an entry
\* of the listing of remotePath.
FullRemotePath(remotePath, entryPath) == PathJoin(remotePath, entryPath)

ReqIdle == rootDir = NoRoot /\ wire = <<>> /\ hconn = NoHandler /\ client = NoClient

\* Accept has returned the connection and handleConnection runs on it; the
\* client has written one request, or two, or has closed without any.
ReqInit ==
    /\ rootDir \in Roots
    /\ wire \in {<<>>} \cup {<<r>> : r \in WireRequests}
                \cup {<<r, HandlerRequest("list", RelPath(<<>>), 0)>> : r \in WireRequests}
    /\ hconn = [NoHandler EXCEPT !.pc = "accepted", !.open = TRUE]
    /\ client = [NoClient EXCEPT !.pc = "waiting"]

ReqNext ==
    \/ HandleDecode \/ HandleListRequest \/ HandleFileRequest \/ HandleFileSend
    \/ ClientReceive

\* ------------------------------------------- cmd/gorsync: the export shim
InstanceIds == 1..MaxInstances
NoGoroutine == [pc |-> "none", target |-> 0, cleared |-> 0]

\* StartServer (main.go:97-127), all of it under serverMutex: with an
\* instance registered it returns 1; else it registers a new Server, starts
\* the background goroutine and returns 0.
StartServer ==
    /\ ~crashed /\ Len(startReturns) < MaxStartCalls
    /\ IF serverInstance # 0
       THEN /\ startReturns' = Append(startReturns, 1)
            /\ UNCHANGED <<serverInstance, instances, bg>>
       ELSE /\ instances < MaxInstances
            /\ instances' = instances + 1
            /\ serverInstance' = instances + 1
            /\ bg' = [bg EXCEPT ![instances + 1].pc = "spawned"]
            /\ startReturns' = Append(startReturns, 0)
    /\ UNCHANGED <<listening, crashed>>
    /\ UNCHANGED reqVars
    /\ UNCHANGED <<xferVars, syncVars, serveVars, diffVars>>

\* Line 117: the goroutine evaluates serverInstance.Start(): it reads the
\* global, without the mutex, when it gets to run; through a nil pointer
\* the call panics.
BgCallStart(g) ==
    /\ ~crashed /\ bg[g].pc = "spawned"
    /\ IF serverInstance = 0
       THEN /\ crashed' = TRUE
            /\ bg' = [bg EXCEPT ![g].pc = "panic"]
       ELSE /\ bg' = [bg EXCEPT ![g].pc = "start", ![g].target = serverInstance]
            /\ UNCHANGED crashed
    /\ UNCHANGED <<serverInstance, instances, listening, startReturns>>
    /\ UNCHANGED reqVars
    /\ UNCHANGED <<xferVars, syncVars, serveVars, diffVars>>

\* Server.Start of the target: net.Listen succeeds only while nobody holds
\* the port, and can fail for other reasons; after it the accept loop runs.
BgListen(g) ==
    /\ ~crashed /\ bg[g].pc = "start"
    /\ \E ok \in BOOLEAN :
         IF ok /\ listening = {}
         THEN /\ listening' = {bg[g].target}
              /\ bg' = [bg EXCEPT ![g].pc = "serving"]
         ELSE /\ bg' = [bg EXCEPT ![g].pc = "failed"]
              /\ UNCHANGED listening
    /\ UNCHANGED <<serverInstance, instances, startReturns, crashed>>
    /\ UNCHANGED reqVars
    /\ UNCHANGED <<xferVars, syncVars, serveVars, diffVars>>

\* Lines 118-123: Start has returned an error; under the mutex the global
\* is set to nil.  "cleared" records what the global held.
BgClear(g) ==
    /\ ~crashed /\ bg[g].pc = "failed"
    /\ serverInstance' = 0
    /\ bg' = [bg EXCEPT ![g].pc = "done", ![g].cleared = serverInstance]
    /\ UNCHANGED <<instances, listening, startReturns, crashed>>
    /\ UNCHANGED reqVars
    /\ UNCHANGED <<xferVars, syncVars, serveVars, diffVars>>

\* StopServer (main.go:153-161), under the mutex: serverInstance.Stop(),
\* which closes the instance's listening socket, then the global is set to
\* nil.  Without a registered instance the call goes through a nil pointer.
StopServer ==
    /\ ~crashed
    /\ IF serverInstance = 0
       THEN /\ crashed' = TRUE
            /\ UNCHANGED <<serverInstance, listening>>
       ELSE /\ listening' = listening \ {serverInstance}
            /\ serverInstance' = 0
            /\ UNCHANGED crashed
    /\ UNCHANGED <<instances, bg, startReturns>>
    /\ UNCHANGED reqVars
    /\ UNCHANGED <<xferVars, syncVars, serveVars, diffVars>>

ShimIdle ==
    /\ serverInstance = 0 /\ instances = 0
    /\ bg = [g \in InstanceIds |-> NoGoroutine]
    /\ listening = {} /\ startReturns = <<>> /\ crashed = FALSE

ShimNext ==
    \/ StartServer \/ StopServer
    \/ \E g \in InstanceIds : BgCallStart(g) \/ BgListen(g) \/ BgClear(g)

HostIdle == ReqIdle /\ ShimIdle

vars == <<xferVars, syncVars, serveVars, diffVars, hostVars>>

\* One CopyFile or GetFile call.
Init == XferInit /\ SyncIdle /\ ServeIdle /\ DiffIdle /\ HostIdle
Next == XferNext
Spec == Init /\ [][Next]_vars
\* Every call of the transfer returns and every goroutine is scheduled:
\* whatever step is possible is taken in the end.
SpecFair == Spec /\ WF_vars(Next)

\* Two sync runs.
InitSync == SyncInit /\ XferIdle /\ ServeIdle /\ DiffIdle /\ HostIdle
SpecSync == InitSync /\ [][SyncNext]_vars

\* The Listener, from Start on.
InitServe == ServeInit /\ XferIdle /\ SyncIdle /\ DiffIdle /\ HostIdle
SpecServe == InitServe /\ [][ServeNext]_vars
\* The goroutine that runs Server.Start is scheduled again and again.
SpecServeFair == SpecServe /\ WF_vars(StartNext)

\* The block diff of two files.
InitDiff == DiffInit /\ XferIdle /\ SyncIdle /\ ServeIdle /\ HostIdle
SpecDiff == InitDiff /\ [][DiffNext]_vars

\* CompareFiles on two paths.
InitCompare == CompareInit /\ BlocksIdle /\ SplitIdle /\ XferIdle /\ SyncIdle /\ ServeIdle /\ HostIdle
SpecCompare == InitCompare /\ [][CompareNext]_vars

\* The split of a file into block ranges.
InitSplit == SplitInit /\ BlocksIdle /\ CompareIdle /\ XferIdle /\ SyncIdle /\ ServeIdle /\ HostIdle
SpecSplit == InitSplit /\ [][SplitNext]_vars
\* One connection of the Listener, from Accept to the handler's return.
InitReq == ReqInit /\ ShimIdle /\ XferIdle /\ SyncIdle /\ ServeIdle /\ DiffIdle
SpecReq == InitReq /\ [][ReqNext]_vars
\* The calls of the export shim, in any order, and its goroutines.
InitShim == ShimIdle /\ ReqIdle /\ XferIdle /\ SyncIdle /\ ServeIdle /\ DiffIdle
SpecShim == InitShim /\ [][ShimNext]_vars

\* ------------------------------------------------ properties: transfer
Failed == result \notin {"none", "ok"}

\* C1: a temporary file is renamed onto the destination only when its
\* whole-file hash equals the advertised hash, and after a return of ok the
\* hash of the destination is the advertised hash.
C1_PublishOnlyVerified ==
    /\ published # NoFile => CalculateMD5(published) = advertised
    /\ result = "ok" => CalculateMD5(fs["dest"]) = advertised

\* C1, the failing case: GetFile has returned ok for a FileInfo without MD5
\* and the destination does not hold the Listener's bytes.
C1_UnverifiedPublish ==
    /\ op = "get" /\ result = "ok"
    /\ advertised = NoHash
    /\ fs["dest"] # fs["source"]

\* C2: in every state of a call the destination holds its content of before
\* the call, or nothing, or the complete new content.
C2_DestNeverPartial ==
    fs["dest"] \in {destBefore, NoFile, fs["source"]}

\* C2, the failing case: the destination holds a proper prefix of the
\* Listener's file, or bytes that are in neither the old nor the new file.
C2_PartialVisible ==
    /\ fs["dest"] \notin {destBefore, NoFile, fs["source"]}
    /\ result = "ok"

C4_BlocksFillTemp ==
    (op = "copy" /\ strategy \in {"parallel", "delta"} /\ pc = "verify")
        => fs["temp"] = fs["source"]

\* C4, the failing case: every task ended without error, the temporary file
\* has the source's length and differs from the source.
C4_RaceCorruptsTemp ==
    /\ op = "copy" /\ strategy \in {"parallel", "delta"} /\ pc = "verify"
    /\ \A b \in BlockIds : tasks[b].pc \in {"none", "done"}
    /\ Len(fs["temp"]) = Len(fs["source"])
    /\ fs["temp"] # fs["source"]

\* ---------------------------------------------------- properties: sync
Returned(res) == spc = "done" /\ syncResult = res
Downloads == {k \in DOMAIN log : log[k].act = "download"}
Removals == {k \in DOMAIN log : log[k].act = "remove"}
\* Some local entry has no remote entry at its path: a removal is due.
RemovalDue == \E p \in TreePaths : localAtStart[p].kind # "none" /\ remote[p].kind = "none"

\* C5: when the remote listing fails the run returns the error and has done
\* nothing: no directory made, no download, no removal, the local tree as
\* it was.
C5_FailedListingStops ==
    listFault # "none" => /\ Returned("list")
                          /\ log = <<>>
                          /\ local = localAtStart

\* C5, the case: the Listener answered the list request with status error
\* while a download and a removal were due.
C5_ListingRefused ==
    /\ listFault = "status" /\ spc = "done"
    /\ remote[<<"a">>].kind = "file" /\ local[<<"a">>].kind = "none"
    /\ RemovalDue

\* The two entries name the same relative path.
SamePath(f1, f2) == f1.Path.parts = f2.Path.parts
\* Equal entries: same isDir, same size and, when both are known, same hash.
EqualEntries(f1, f2) ==
    /\ f1.IsDir = f2.IsDir
    /\ f1.Size = f2.Size
    /\ (f1.MD5 # NoHash /\ f2.MD5 # NoHash) => f1.MD5 = f2.MD5
HasEqualLocal(remoteFile) ==
    \E j \in DOMAIN localFiles :
        SamePath(localFiles[j], remoteFile) /\ EqualEntries(localFiles[j], remoteFile)

\* C6: a remote file entry is downloaded if and only if the local listing
\* has no equal entry at the same relative path.
C6_DownloadIffNoEqualLocal ==
    \A k \in DOMAIN log : log[k].act \in {"download", "skip"} =>
        (log[k].act = "download" <=> ~HasEqualLocal(remoteFiles[log[k].at]))

\* C6, the failing case: a file is downloaded although the local listing
\* has an equal entry, with known and equal hashes, at its path.
C6_EqualYetDownloaded ==
    \E k \in Downloads :
        /\ HasEqualLocal(remoteFiles[log[k].at])
        /\ remoteFiles[log[k].at].MD5 # NoHash
        /\ \E j \in DOMAIN localFiles :
              /\ SamePath(localFiles[j], remoteFiles[log[k].at])
              /\ localFiles[j].MD5 = remoteFiles[log[k].at].MD5

\* C7: the run after a run that returned ok downloads nothing.
C7_SecondRunDownloadsNothing ==
    run = "second" => Downloads = {}

\* C7, the failing case: the first run returned ok and left "d/a" with the
\* bytes of the remote file, and the second run downloads it again from a
\* Listener whose separator is "\".
C7_SecondRunDownloads ==
    /\ run = "second" /\ windows
    /\ localAtStart[<<"d", "a">>].kind = "file"
    /\ localAtStart[<<"d", "a">>].data = remote[<<"d", "a">>].data
    /\ \E k \in Downloads : Join(remoteFiles[log[k].at].Path) = <<"d", "a">>

\* C8: after a run that returned ok, no path that was only local is left
\* and every path that was only remote exists.
C8_OnlyLocalGoneOnlyRemoteMade ==
    Returned("ok") =>
        \A p \in TreePaths :
            /\ (localAtStart[p].kind # "none" /\ remote[p].kind = "none")
                  => local[p].kind = "none"
            /\ (localAtStart[p].kind = "none" /\ remote[p].kind # "none")
                  => local[p].kind # "none"

\* C8, the failing case: the run returned ok and a path that was only local
\* is still there, after a removal that failed.
C8_OnlyLocalLeft ==
    /\ Returned("ok")
    /\ \E k \in Removals : ~log[k].ok
    /\ \E p \in TreePaths :
          localAtStart[p].kind # "none" /\ remote[p].kind = "none" /\ local[p].kind # "none"

\* C9: after a run that returned ok every regular file of the remote tree
\* is a local file with the same bytes.
C9_RemoteFilesIdentical ==
    Returned("ok") =>
        \A p \in RegularFiles(remote) :
            local[p].kind = "file" /\ local[p].data = remote[p].data

\* C9, the failing case: the first run returned ok on a platform with "/",
\* and the remote file "a.tmp" is not in the local tree.
C9_RemoteFileMissing ==
    /\ Returned("ok") /\ run = "first" /\ ~windows
    /\ remote[<<"a.tmp">>].kind = "file"
    /\ local[<<"a.tmp">>].kind = "none"

C11_OkOnlyIfAllSucceeded ==
    Returned("ok") => \A k \in Downloads \cup Removals : log[k].ok

\* C11, the failing case: the run returned ok after an os.RemoveAll that
\* failed, every download of the run having succeeded.
C11_OkWithFailedRemoval ==
    /\ Returned("ok")
    /\ \A k \in Downloads : log[k].ok
    /\ \E k \in Removals : ~log[k].ok

\* ---------------------------------------------- properties: the publish
\* The positions of a call inside Saferename / saferename.
PublishSteps == {"rename", "aside", "rename2", "restore", "removeOrig"}
\* c is a complete file with the new contents: what CopyFile verified
\* against the source, what GetFile verified against an advertised hash.
NewContentsIn(c) ==
    /\ c # NoFile
    /\ op = "copy" => c = fs["source"]
    /\ (op = "get" /\ advertised # NoHash) => CalculateMD5(c) = advertised
\* The contents the destination had before the call are complete under the
\* final name or under the aside name.
OldContentsKept ==
    destBefore # NoFile /\ destBefore \in {fs["dest"], fs["origtmp"]}

\* C12: whatever step of the publish the program is at (a crash there
\* leaves the disk as it is in that state), the new contents are complete
\* under the temporary or the final name, or the old contents are complete
\* under the final or the aside name; a publish that returned ok has put
\* the new contents under the final name.
C12_PublishKeepsOneCopy ==
    /\ pc \in PublishSteps =>
          \/ NewContentsIn(fs["temp"])
          \/ published # NoFile /\ fs["dest"] = published /\ NewContentsIn(fs["dest"])
          \/ OldContentsKept
    /\ (pc = "done" /\ published # NoFile) =>
          fs["dest"] = published /\ NewContentsIn(fs["dest"])

\* C12, the case: the destination has been moved aside and the second
\* rename has failed; the final name is empty, the old contents are under
\* the aside name and the new ones under the temporary name.
C12_BetweenRenames ==
    /\ pc = "restore"
    /\ fs["dest"] = NoFile
    /\ fs["origtmp"] = destBefore /\ destBefore # NoFile
    /\ fs["temp"] # NoFile /\ fs["temp"] # destBefore

\* The publish has made the call, with that outcome.
HasCalled(call, ok) == \E k \in DOMAIN calls : calls[k] = [call |-> call, ok |-> ok]

\* C13 as stated: after a failed second rename the publish returns an
\* error, with the displaced original back under the final name when the
\* restoring rename succeeded; after a successful second rename the
\* displaced original is gone.
C13_RestoreOrDelete ==
    pc = "done" =>
        /\ HasCalled("rename2", FALSE) =>
              /\ Failed
              /\ HasCalled("restore", TRUE) \/ HasCalled("restore", FALSE)
              /\ HasCalled("restore", TRUE) => fs["dest"] = destBefore
        /\ HasCalled("rename2", TRUE) =>
              /\ result = "ok"
              /\ fs["origtmp"] = NoFile

\* C13, amended: as stated, but after a successful second rename the
\* displaced original is gone when its os.Remove succeeded; when the Remove
\* failed the publish still returns ok and the original stays under the
\* aside name.
C13_RestoreOrTryDelete ==
    pc = "done" =>
        /\ HasCalled("rename2", FALSE) =>
              /\ Failed
              /\ HasCalled("restore", TRUE) \/ HasCalled("restore", FALSE)
              /\ HasCalled("restore", TRUE) =>
                    fs["dest"] = destBefore /\ fs["origtmp"] = NoFile
        /\ HasCalled("rename2", TRUE) =>
              /\ result = "ok"
              /\ HasCalled("remove", TRUE) \/ HasCalled("remove", FALSE)
              /\ HasCalled("remove", TRUE) => fs["origtmp"] = NoFile
              /\ HasCalled("remove", FALSE) => fs["origtmp"] = destBefore

\* C13, the case: the second rename failed, the restoring rename succeeded
\* and the call has returned its error with the old destination in place.
C13_Restored ==
    /\ pc = "done" /\ result = "ioerror"
    /\ calls = << [call |-> "rename", ok |-> FALSE], [call |-> "aside", ok |-> TRUE],
                  [call |-> "rename2", ok |-> FALSE], [call |-> "restore", ok |-> TRUE] >>
    /\ fs["dest"] = destBefore /\ fs["dest"] # fs["source"]

\* ------------------------------------------------ properties: Listener
\* A handler has answered ok and ended without a failed Read or Write.
Streamed(c) == conns[c].pc = "closed" /\ conns[c].status = "ok" /\ ~conns[c].broken
\* Block blockIndex of content c, clipped at the end of the file.
BlockRange(c, blockIndex) == ReadAt(c, blockIndex * BlockSize, BlockSize)

\* C14: a file request that names no block index is answered with the
\* whole file from its offset on, whatever the file's size, and a request
\* that names a block index with the clipped range of that block.
C14_WholeFileUnlessBlock ==
    \A c \in ConnIds : Streamed(c) =>
        /\ conns[c].framing = <<NL, NL>>
        /\ conns[c].by = "getFileSequential" =>
              conns[c].sent = ReadAt(served, conns[c].msg.offset[1], Len(served))
        /\ conns[c].by = "GetFileBlock" =>
              conns[c].sent = BlockRange(served, conns[c].req.BlockIndex)

\* C14, the failing case: the request of getFileSequential, offset 0, for
\* a file longer than one block got the first block only.
C14_FirstBlockOnly ==
    \E c \in ConnIds :
        /\ Streamed(c)
        /\ conns[c].by = "getFileSequential" /\ conns[c].msg.offset = <<0>>
        /\ conns[c].msg.blockIndex = <<>>
        /\ Len(served) > BlockSize
        /\ conns[c].sent = BlockRange(served, 0)

\* C16: once Stop has closed the listening socket, Server.Start ends its
\* loop and returns nil; and an Accept error from the open socket leaves
\* Start in its loop.
C16_StopEndsStart ==
    /\ (lis = "closed") ~> (startPc = "returned" /\ startResult = "nil")
    /\ [](lis = "open" => startPc \in {"accept", "failed"})

\* C16, the failing case: the socket is closed, Accept has returned its
\* error again and again, and Start is still in its loop.
C16_LoopsAfterStop ==
    /\ lis = "closed"
    /\ acceptErrors = MaxAcceptErrors
    /\ startPc = "accept" /\ startResult = "none"

\* ---------------------------------------- properties: receiving a file
\* Bytes [from+1 .. to] of the temporary file are the source's bytes at
\* the same offsets.
TempMatchesSource(from, to) ==
    \A i \in (from + 1)..to :
        i <= Len(fs["temp"]) /\ i <= Len(fs["source"]) /\ fs["temp"][i] = fs["source"][i]

\* C15: what a receive loop has written so far is content of the
\* Listener's file at the offsets it has there, on the sequential path
\* from offset 0 and on the per-block path from the block's offset: no
\* newline of the framing is among it, and no content byte was skipped.
C15_ContentAtItsOffset ==
    /\ (op = "get" /\ pc = "grecv") => TempMatchesSource(0, dstPos)
    /\ (op = "get" /\ pc = "gjoin") =>
          \A b \in BlockIds :
              tasks[b].pc = "recv" => TempMatchesSource(b * BlockSize, tasks[b].off)

\* C15, the failing case: GetFileBlock has written the sentinel newline as
\* the first byte of its block.
C15_SentinelWritten ==
    /\ op = "get" /\ pc = "gjoin"
    /\ \E b \in BlockIds :
          /\ tasks[b].pc = "recv"
          /\ tasks[b].off > b * BlockSize
          /\ fs["temp"][b * BlockSize + 1] = NL

\* ------------------------------------------ properties: the strategies
\* CopyFile has opened its temporary file and taken its branch.
Selected == op = "copy" /\ strategy # "none"

CopiedBlocks == {b \in BlockIds : tasks[b].pc # "none"}
\* The indices FindDifferentBlocks gives for two contents.
DifferingBlocks(src, dst) ==
    LET d == FindDifferentBlocks(CalculateFileBlocks(src), CalculateFileBlocks(dst))
    IN {d[k] : k \in DOMAIN d}
\* Block b of content c.
BlockOf(c, b) == ReadAt(c, b * BlockSize, BlockSize)

\* C18: the blocks the delta strategy copies are exactly the blocks whose
\* hash differs between the source and the destination file that exists.
C18_DeltaCopiesDiffering ==
    (spawnedBy = "copyFileDelta" /\ pc = "join") =>
        CopiedBlocks = DifferingBlocks(fs["source"], destBefore)

\* C18, the failing case: the delta strategy copies block 0 although the
\* source and the destination hold the same bytes there.
C18_EqualBlockCopied ==
    /\ spawnedBy = "copyFileDelta" /\ pc = "join"
    /\ destBefore # NoFile
    /\ BlockOf(fs["source"], 0) = BlockOf(destBefore, 0)
    /\ 0 \in CopiedBlocks
    /\ 0 \notin DifferingBlocks(fs["source"], destBefore)

\* C19: when the delta strategy has ended without error, the blocks of the
\* temporary file it did not copy hold the source's bytes, and the
\* temporary file equals the source.
C19_DeltaCompletesTemp ==
    (spawnedBy = "copyFileDelta" /\ pc = "verify") =>
        /\ \A b \in BlockIds \ CopiedBlocks :
              BlockOf(fs["temp"], b) = BlockOf(fs["source"], b)
        /\ fs["temp"] = fs["source"]

\* C19, the failing case: every task of the delta strategy has ended
\* without error and a block of the temporary file is not the source's.
C19_DeltaLeavesWrongBlock ==
    /\ spawnedBy = "copyFileDelta" /\ pc = "verify"
    /\ \A b \in CopiedBlocks : tasks[b].pc = "done"
    /\ \E b \in BlockIds : BlockOf(fs["temp"], b) # BlockOf(fs["source"], b)

\* ------------------------------------------------ properties: the diff
\* The two listings have the same index and a different hash exactly at
\* block 1 of three.
DifferOnlyAtBlockOne ==
    /\ Len(srcBlocks) = 3 /\ Len(dstBlocks) = 3
    /\ \A k \in 1..3 :
          /\ srcBlocks[k].Index = dstBlocks[k].Index
          /\ (srcBlocks[k].Hash # dstBlocks[k].Hash) <=> (srcBlocks[k].Index = 1)

\* C20: FindDifferentBlocks returns, once each and in source order, the
\* indices of the source blocks that the destination listing lacks or
\* holds with another hash, and no index that only the destination
\* listing has; listings of three blocks that differ in the hash of block
\* 1 only give <<1>>.
C20_DifferingIndices ==
    diffPc = "found" =>
        LET returned == {diffBlocks[k] : k \in DOMAIN diffBlocks}
            same(i) == \E k \in DOMAIN srcBlocks, m \in DOMAIN dstBlocks :
                          /\ srcBlocks[k].Index = i /\ dstBlocks[m].Index = i
                          /\ srcBlocks[k].Hash = dstBlocks[m].Hash
        IN /\ returned = {srcBlocks[k].Index : k \in DOMAIN srcBlocks}
                            \ {i \in 0..MaxDiffSize : same(i)}
           /\ \A j, k \in DOMAIN diffBlocks :
                 j < k => diffBlocks[j] < diffBlocks[k]
           /\ \A m \in DOMAIN dstBlocks :
                 (\A k \in DOMAIN srcBlocks :
                     srcBlocks[k].Index # dstBlocks[m].Index)
                 => dstBlocks[m].Index \notin returned
           /\ DifferOnlyAtBlockOne => diffBlocks = <<1>>

\* C20, the case: two listings of three blocks that differ in the hash of
\* block 1 only have been compared.
C20_ChangedMiddleBlock ==
    /\ diffPc = "found"
    /\ DifferOnlyAtBlockOne
    /\ diffBlocks = <<1>>

\* ------------------------------------ properties: the block listing
\* The sum of the sizes of the first n blocks of a listing.
RECURSIVE SumOfSizes(_, _)
SumOfSizes(blocks, n) ==
    IF n = 0 THEN 0 ELSE blocks[n].Size + SumOfSizes(blocks, n - 1)

\* C21: the listing CalculateFileBlocks returns for a file has
\* ceil(fileSize / BlockSize) blocks with the indices 0..n-1 in order;
\* every block but the last has BlockSize bytes, the last at most BlockSize
\* (and at least one); the sizes sum to the file size; block i carries the
\* hash of the bytes [i*BlockSize, i*BlockSize + size_i); an empty file has
\* no blocks.
C21_BlocksCoverFile ==
    diffPc \in {"dest", "find", "found"} =>
        LET n == Len(srcBlocks)
            size == Len(diffSource)
        IN /\ n = CeilDiv(size, BlockSize)
           /\ \A k \in 1..n :
                 /\ srcBlocks[k].Index = k - 1
                 /\ srcBlocks[k].Size >= 1 /\ srcBlocks[k].Size <= BlockSize
                 /\ k < n => srcBlocks[k].Size = BlockSize
                 /\ srcBlocks[k].Hash =
                       CalculateMD5(SubSeq(diffSource, (k - 1) * BlockSize + 1,
                                           (k - 1) * BlockSize + srcBlocks[k].Size))
           /\ SumOfSizes(srcBlocks, n) = size
           /\ size = 0 => srcBlocks = <<>>

\* C21, the case: a file of two whole blocks and a shorter last one has
\* been listed.
C21_ShortLastBlock ==
    /\ diffPc \in {"dest", "find", "found"}
    /\ Len(diffSource) = 2 * BlockSize + 1
    /\ Len(srcBlocks) = 3
    /\ srcBlocks[3].Size = 1

\* ------------------------------------- properties: the sequential copy
\* The call has returned and none of its I/O calls failed: no error of a
\* file or rename call was returned and every rename and remove of the
\* publish succeeded.
NoFaultReturn ==
    /\ pc = "done"
    /\ result \notin {"ioerror", "protocol"}
    /\ \A k \in DOMAIN calls : calls[k].ok

\* C22: a CopyFile of a source not larger than MinParallelSize, whatever
\* the destination held before, that met no I/O fault has returned ok, the
\* destination holds the source's bytes, and neither the temporary file
\* nor a displaced original is left.
C22_SmallCopyEqualsSource ==
    (op = "copy" /\ NoFaultReturn /\ fs["source"] # NoFile
       /\ Len(fs["source"]) <= MinParallelSize) =>
        /\ result = "ok"
        /\ fs["dest"] = fs["source"]
        /\ fs["temp"] = NoFile /\ fs["origtmp"] = NoFile

\* C22, the case: a source of two buffer reads has replaced, without a
\* fault, a longer destination of other content.
C22_ReplacedOtherVersion ==
    /\ op = "copy" /\ NoFaultReturn /\ result = "ok"
    /\ strategy = "sequential"
    /\ Len(fs["source"]) = 2 * BufferSize
    /\ destBefore # NoFile /\ Len(destBefore) > Len(fs["source"])
    /\ fs["dest"] = fs["source"] /\ fs["dest"] # destBefore

\* ------------------------------------------ properties: CompareFiles
\* C23: CompareFiles reports true when the destination does not exist and
\* when the two files' contents differ, and false when both are regular
\* files of the same content and permission bits.
C23_DifferentIffContentDiffers ==
    (cmpPc = "returned" /\ ~cmpErr) =>
        /\ cmpDest.kind = "none" => different
        /\ (cmpSource.kind = "file" /\ cmpDest.kind = "file"
              /\ cmpSource.data # cmpDest.data) => different
        /\ (cmpSource.kind = "file" /\ cmpDest.kind = "file"
              /\ cmpSource.data = cmpDest.data /\ cmpSource.perm = cmpDest.perm)
              => ~different

\* C23, the failing case: two regular files of the same size and
\* permission bits and of different content are reported as not different.
C23_SameSizeOtherContent ==
    /\ cmpPc = "returned" /\ ~cmpErr
    /\ cmpSource.kind = "file" /\ cmpDest.kind = "file"
    /\ cmpSource.size = cmpDest.size /\ cmpSource.perm = cmpDest.perm
    /\ cmpSource.data # cmpDest.data
    /\ ~different

\* --------------------------------- properties: the temporary file
\* The step is a download (a GetFile call) to the local path p.
DownloadsTo(p) ==
    /\ spc = "remote" /\ ~remoteFiles[idx].IsDir
    /\ Join(remoteFiles[idx].Path) = p
    /\ Len(log') = Len(log) + 1
    /\ log'[Len(log')].act = "download"

\* C24: the temporary file of a download is a path of its own, so a
\* GetFile call leaves every local path other than its destination (and
\* what the destination displaces, there or under its set-aside name) as
\* it was.
C24_DownloadTouchesOnlyDest ==
    [][\A p \in TreePaths :
          DownloadsTo(p) =>
             \A q \in TreePaths :
                (q # p /\ ~IsUnder(q, p) /\ q[1] # "d-orig.tmp")
                   => local'[q] = local[q]]_vars

\* C24, the failing case: the download of "a" is the last thing the run did
\* and the local file "a.tmp", there when the run started, is gone.
C24_NeighbourTaken ==
    /\ run = "first" /\ log # <<>>
    /\ log[Len(log)].act = "download"
    /\ Join(remoteFiles[log[Len(log)].at].Path) = <<"a">>
    /\ localAtStart[<<"a.tmp">>].kind = "file"
    /\ local[<<"a.tmp">>].kind = "none"

\* ------------------------------------- properties: type conflicts
\* The run met no I/O fault: the listings succeeded and no step of the two
\* loops had an I/O call fail for a cause outside the two trees.
FaultFree ==
    /\ listFault = "none"
    /\ syncResult # "locallist"
    /\ ~(syncResult = "mkdir" /\ log = <<>>)
    /\ \A k \in DOMAIN log : ~log[k].fault

\* The local tree had a file where the remote tree has a directory, or a
\* directory where the remote tree has a file.
TypeConflict(p) ==
    /\ localAtStart[p].kind \in {"file", "dir"}
    /\ remote[p].kind \in {"file", "dir"}
    /\ localAtStart[p].kind # remote[p].kind

\* C25: a run without I/O faults ends with every path of a type conflict
\* holding the remote entry's type (a file: the remote content) and with
\* nothing of the displaced local entry left in the tree.
C25_RemoteTypeWins ==
    (run = "first" /\ spc = "done" /\ FaultFree) =>
        \A p \in TreePaths :
           TypeConflict(p) =>
              /\ local[p].kind = remote[p].kind
              /\ remote[p].kind = "file" => local[p].data = remote[p].data
              /\ local[AsidePath(p)].kind = "none"
              /\ \A q \in TreePaths : IsUnder(q, AsidePath(p)) => local[q].kind = "none"

\* C25, the failing case: the remote file "d" has replaced the local
\* directory "d" in a run that returned nil without a fault, and the
\* directory is still in the tree, with its file, under its set-aside name.
C25_DirectoryLeftAside ==
    /\ run = "first" /\ spc = "done" /\ FaultFree /\ syncResult = "ok"
    /\ remote[<<"d">>].kind = "file" /\ localAtStart[<<"d">>].kind = "dir"
    /\ local[<<"d">>].kind = "file"
    /\ local[<<"d-orig.tmp">>].kind = "dir"
    /\ local[<<"d-orig.tmp", "a">>] = localAtStart[<<"d", "a">>]

\* ------------------------------------- properties: the block ranges
\* The byte offsets of a range.
BytesOf(r) == {k \in 0..MaxSplitSize : r.off <= k /\ k < r.off + r.len}
\* The blocks function f has computed a range for.
SplitDone(f) == {i \in SplitBlockIds : ranges[f][i] # NoRange}

\* C26: for copyFileParallel, getFileParallel and the Listener's clip
\* alike, block i of a file gets the range that starts at i * BlockSize, of
\* BlockSize bytes unless it is the last (then of 1..BlockSize bytes, up to
\* the end of the file); there are ceil(size / BlockSize) blocks, and once
\* all have their range the ranges are pairwise disjoint and their union
\* is [0, size).
C26_RangesPartitionFile ==
    \A f \in Splitters :
       LET n == CeilDiv(splitSize, BlockSize)
       IN /\ SplitDone(f) \subseteq 0..(n - 1)
          /\ \A i \in SplitDone(f) :
                /\ ranges[f][i].off = i * BlockSize
                /\ ranges[f][i].len >= 1 /\ ranges[f][i].len <= BlockSize
                /\ i < n - 1 => ranges[f][i].len = BlockSize
                /\ ranges[f][i].off + ranges[f][i].len <= splitSize
          /\ \A i, j \in SplitDone(f) :
                i # j => BytesOf(ranges[f][i]) \cap BytesOf(ranges[f][j]) = {}
          /\ (splitSize > 0 /\ SplitDone(f) = 0..(n - 1)) =>
                UNION {BytesOf(ranges[f][i]) : i \in SplitDone(f)} = 0..(splitSize - 1)

\* C26, the case: a file of three whole blocks and a shorter last one has
\* been split by all three functions.
C26_SplitWithShortBlock ==
    /\ splitSize = 3 * BlockSize + 1
    /\ \A f \in Splitters :
          /\ SplitDone(f) = 0..3
          /\ ranges[f][3] = [off |-> 3 * BlockSize, len |-> 1]

\* ------------------------------------ properties: the block tasks
\* The bytes [pos, pos + n) lie inside the range of block b of the file
\* being transferred.
InOwnRange(b, pos, n) ==
    LET r == GetFileBlockRange(Len(fs["source"]), b)
    IN r.off <= pos /\ pos + n <= r.off + r.len

\* This step is a write of the task of block b: copyFileBlock's
\* destFile.Write at the handle's offset, GetFileBlock's at its own.
CopyBlockWrites(b) ==
    /\ op = "copy" /\ pc = "join"
    /\ tasks[b].pc = "write" /\ tasks'[b].pc \in {"read", "done"}

GetBlockWrites(b) ==
    /\ op = "get" /\ pc = "gjoin"
    /\ tasks[b].pc = "recv" /\ tasks'[b].remaining < tasks[b].remaining

\* Every task that was started has ended without an error.
AllTasksDone ==
    /\ pc \in {"join", "gjoin"}
    /\ \E b \in BlockIds : tasks[b].pc = "done"
    /\ \A b \in BlockIds : tasks[b].pc \in {"none", "done"}

\* C27: each block task writes inside its own byte range only, and once
\* all tasks have finished the temporary file has the declared size.
C27_TasksWriteOwnRange ==
    /\ [][\A b \in BlockIds :
             /\ CopyBlockWrites(b) => InOwnRange(b, dstPos, Len(tasks[b].buf))
             /\ GetBlockWrites(b) =>
                   InOwnRange(b, tasks[b].off, tasks[b].remaining - tasks'[b].remaining)]_vars
    /\ [](AllTasksDone => Len(fs["temp"]) = Len(fs["source"]))

\* C27, the failing case: both tasks of a parallel copy have finished
\* without error and the temporary file is longer than the source.
C27_TempLongerThanSource ==
    /\ op = "copy" /\ AllTasksDone
    /\ spawnedBy = "copyFileParallel"
    /\ Len(fs["temp"]) > Len(fs["source"])

\* ---------------------------------------------------------------- C28
\* Some block task has been started and has not ended.
TaskRunning == \E b \in BlockIds : tasks[b].pc \notin {"none", "done", "failed"}
Spawned == {b \in BlockIds : tasks[b].pc # "none"}

\* C28: in the parallel and delta strategies of the engine and of the
\* client, the hash of the temporary file is read and the publish decided
\* only after every block task has ended: a block task runs (and so may
\* write) only while the call is at its join, never at the verification,
\* during the publish or after the return.
C28_HashAfterEveryTask == TaskRunning => pc \in {"join", "gjoin"}

\* The hash is about to be read after a join of two block tasks.
C28_VerifyAfterTwoTasks ==
    /\ pc \in {"verify", "gverify"}
    /\ spawnedBy # "none"
    /\ Cardinality(Spawned) >= 2
    /\ \A b \in Spawned : tasks[b].pc = "done"

\* ---------------------------------------------------------------- C29
Reported == {b \in BlockIds : tasks[b].pc = "failed"}

\* C29: the error channel of a parallel or delta transfer has room for one
\* error per started task, so a failing task never waits to report its
\* error: at the join the capacity is the number of started tasks, the
\* channel holds one error per task that reported, and a task that is to
\* send finds room; and, every step that is possible being taken in the
\* end, every task ends, the join returns and the call returns.
C29_EveryTaskReportsAndCallReturns ==
    /\ [](pc \in {"join", "gjoin"} =>
            /\ errChan.cap = Cardinality(Spawned)
            /\ errChan.len = Cardinality(Reported)
            /\ \A b \in BlockIds : tasks[b].pc = "send" => errChan.len < errChan.cap)
    /\ <>(pc = "done" /\ ~TaskRunning)

\* Every started task has failed and reported, two at least, and the call
\* has returned the error.
C29_AllTasksFailedAndReturned ==
    /\ pc = "done" /\ result = "ioerror"
    /\ Cardinality(Spawned) >= 2
    /\ Reported = Spawned
    /\ errChan.len = errChan.cap

\* ---------------------------------------------------------------- C30
\* A step of block task b: one Seek, Read, Write, connect or receive of its
\* own, its failure, or the send of its error.
TaskStep(b) ==
    \/ BlockSeekSrc(b) \/ BlockSeekDst(b) \/ BlockRead(b) \/ BlockWrite(b)
    \/ BlockFail(b)
    \/ GetBlockConnect(b) \/ GetBlockRecv(b) \/ GetBlockFail(b)
    \/ SendError(b)
Changed == {b \in BlockIds : tasks'[b] # tasks[b]}

\* C30: a parallel or delta transfer cancels nothing.  While the call is at
\* its join a step is the step of one task and changes no other task, and
\* a task that has not ended can take its next step whatever has happened
\* to the others; as long as some task has not ended the call stays at
\* the join without a result, also when another task has already reported
\* a failure, so a task that never ends keeps the call from returning;
\* and a call that returns after a task reported a failure returns the error.
C30_NoEarlyCancellation ==
    /\ [][(pc \in {"join", "gjoin"} /\ pc' = pc) =>
            (Cardinality(Changed) = 1 /\ \A b \in Changed : TaskStep(b))]_vars
    /\ [][TaskRunning => (pc' = pc /\ result' = "none")]_vars
    /\ [](\A b \in BlockIds :
            tasks[b].pc \notin {"none", "done", "failed"} => ENABLED TaskStep(b))
    /\ [](pc = "done" /\ Reported # {} => result = "ioerror")
    /\ (<>[]TaskRunning => [](result = "none"))

\* One task has reported its failure while another is in the middle of its
\* block, and the call is waiting at the join without a result.
C30_OneFailedOtherStillCopying ==
    /\ pc \in {"join", "gjoin"} /\ result = "none"
    /\ Reported # {}
    /\ \E b \in BlockIds : tasks[b].pc \in {"read", "write", "recv"} /\ tasks[b].remaining > 0

\* ---------------------------------------------------------------- C31
\* C31: a connection the Listener accepted serves at most one request and
\* is closed when its handler returns, on every path: the handler decodes
\* at most one request and writes at most one response, a handler that has
\* returned has closed the connection (after a list response, after a file
\* response and its bytes, after an error response, after a failed read or
\* write), and after its return nothing more is read or written.
C31_OneRequestThenClosed ==
    /\ [](hconn.decoded <= 1 /\ Len(hconn.resps) <= 1)
    /\ [](hconn.pc = "returned" => ~hconn.open)
    /\ [](hconn.pc \in {"accepted", "list", "file", "stream"} => hconn.open)
    /\ [][hconn.pc = "returned" => (hconn' = hconn /\ wire' = wire)]_vars

\* A file request was answered and its bytes were sent to the end; the
\* handler has returned with a second request of the client unread.
C31_ClosedWithSecondRequestUnread ==
    /\ hconn.pc = "returned" /\ ~hconn.open
    /\ hconn.req.Type = "file" /\ Len(hconn.resps) = 1
    /\ hconn.resps[1].Status = "ok" /\ Len(hconn.raw) > 1 /\ hconn.remaining = 0
    /\ wire # <<>>

\* ---------------------------------------------------------------- C32
HasFiles(r) == r.Files # <<>>
HasFile(r) == r.File # NoInfo

\* C32: no response of the Listener carries both files and file: an ok
\* response to a list request carries the files list and no file record,
\* an ok response to a file request carries one file record and no files
\* list, and an error response carries a message and neither.
C32_FilesXorFile ==
    \A k \in DOMAIN hconn.resps :
       LET r == hconn.resps[k]
       IN /\ ~(HasFiles(r) /\ HasFile(r))
          /\ r.Status \in {"ok", "error"}
          /\ r.Status = "error" => (r.Message /\ ~HasFiles(r) /\ ~HasFile(r))
          /\ (r.Status = "ok" /\ hconn.req.Type = "list") =>
                (HasFiles(r) /\ ~HasFile(r) /\ ~r.Message)
          /\ (r.Status = "ok" /\ hconn.req.Type = "file") =>
                (HasFile(r) /\ ~HasFiles(r) /\ ~r.Message)
          /\ r.Status = "ok" => hconn.req.Type \in {"list", "file"}

\* An ok response to a list request with several entries has been sent.
C32_ListOfSeveralEntries ==
    /\ hconn.req.Type = "list" /\ Len(hconn.resps) = 1
    /\ hconn.resps[1].Status = "ok" /\ Len(hconn.resps[1].Files) >= 2

\* ---------------------------------------------------------------- C33
\* The request the handler decoded is a file request for a path that is
\* missing or is a directory.
BadFileRequest ==
    /\ hconn.req.Type = "file" /\ hconn.decoded = 1
    /\ LET fullPath == FullPath(rootDir, hconn.req.Path)
       IN ~Exists(fullPath) \/ IsDir(fullPath)

\* C33: a file request for a missing path or a directory gets one response,
\* with status error, and nothing else on the connection: no file record,
\* no sentinel, no raw bytes (exactly one response once the handler has
\* returned, unless the write of the response itself failed); the client
\* then returns an error and does not go on to the download.
C33_BadPathOneErrorOnly ==
    BadFileRequest =>
       /\ hconn.raw = <<>>
       /\ \A k \in DOMAIN hconn.resps :
             hconn.resps[k].Status = "error" /\ ~HasFile(hconn.resps[k])
       /\ hconn.pc = "returned" => Len(hconn.resps) = (IF hconn.broken THEN 0 ELSE 1)
       /\ client.pc # "download"
       /\ client.pc = "returned" => client.err

\* A file request for a directory has been answered with the error and
\* the client has returned it.
C33_DirectoryRefused ==
    /\ BadFileRequest /\ IsDir(FullPath(rootDir, hconn.req.Path))
    /\ hconn.pc = "returned" /\ Len(hconn.resps) = 1
    /\ client.pc = "returned" /\ client.err

\* ---------------------------------------------------------------- C34
\* C34: with a root directory set, every path the Listener stats, opens or
\* walks for a list or file request lies inside that root, whatever the
\* request path is (".." components and absolute paths included); only
\* with the empty root is the request path used as it is.
C34_ServedPathsInsideRoot ==
    /\ rootDir # NoRoot => \A q \in hconn.used : InRoot(rootDir, q)
    /\ (rootDir = NoRoot /\ hconn.used # {}) => OnDisk(hconn.req.Path) \in hconn.used

\* C34, the failing case: the Listener serves /srv, the request names
\* "../etc/a", and the bytes of /etc/a have been sent.
C34_FileOutsideRootSent ==
    /\ rootDir = AbsPath(<<"srv">>)
    /\ hconn.req.Type = "file" /\ hconn.req.Path = RelPath(<<"..", "etc", "a">>)
    /\ <<"etc", "a">> \in hconn.used
    /\ Len(hconn.resps) = 1 /\ hconn.resps[1].Status = "ok"
    /\ hconn.raw = <<NL>> \o DiskData(<<"etc", "a">>)

\* ---------------------------------------------------------------- C35
\* The list request named a proper subdirectory of the root.
ListedBelowRoot ==
    LET top == OnDisk(FullPath(rootDir, hconn.req.Path))
    IN rootDir # NoRoot /\ InRoot(rootDir, top) /\ top # OnDisk(rootDir)
\* The place on the Listener's disk a file request for entry e of the
\* listing of the request path resolves to.
ResolvesTo(e) == OnDisk(FullPath(rootDir, FullRemotePath(hconn.req.Path, e.Path)))

\* C35: for every regular file in the listing ListFiles(P) returned, the
\* file request for join(P, entry path) resolves on the Listener to the
\* file the entry was made from, with the empty root and with a root of
\* which P is a proper subdirectory.
C35_EntryRequestFindsItsFile ==
    (hconn.req.Type = "list" /\ (rootDir = NoRoot \/ ListedBelowRoot)) =>
        \A k \in DOMAIN client.files :
            ~client.files[k].IsDir => ResolvesTo(client.files[k]) = client.files[k].from

\* C35, the failing case: the root is /srv, the listing of "d" has the
\* file /srv/d/a under the path "d/a", and the request for join("d",
\* "d/a") names a path that does not exist.
C35_RequestNamesMissingPath ==
    /\ rootDir = AbsPath(<<"srv">>) /\ hconn.req.Type = "list"
    /\ hconn.req.Path = RelPath(<<"d">>)
    /\ \E k \in DOMAIN client.files :
          /\ client.files[k].from = <<"srv", "d", "a">>
          /\ client.files[k].Path = RelPath(<<"d", "a">>)
          /\ ResolvesTo(client.files[k]) = <<"srv", "d", "d", "a">>
          /\ ResolvesTo(client.files[k]) \notin DiskPaths

\* ---------------------------------------------------------------- C36
\* The remote listing has an entry at the relative path of local entry f.
HasRemoteAt(f) == \E j \in DOMAIN remoteFiles : SamePath(f, remoteFiles[j])
RemoteTurns == {m \in DOMAIN log : log[m].act \in {"mkdir", "download", "skip"}}

\* C36: the deletion loop removes a local path only if the remote listing
\* has no entry at the same relative path, or the path lies below a local
\* directory of which that is true; and the first removal comes after
\* every entry of the remote listing has had its turn (directory made,
\* file downloaded or skipped).
C36_DeleteOnlyLocalOnlyAfterRemote ==
    /\ [](\A k \in Removals :
             /\ ~HasRemoteAt(localFiles[log[k].at])
             /\ Cardinality(RemoteTurns) = Len(remoteFiles)
             /\ \A m \in RemoteTurns : m < k)
    /\ [][spc = "delete" =>
            \A q \in TreePaths :
               (local[q].kind # "none" /\ local'[q].kind = "none") =>
                  LET p == Join(localFiles[idx].Path)
                  IN /\ q = p \/ IsUnder(q, p)
                     /\ ~HasRemoteAt(localFiles[idx])]_vars

\* C36, the failing case: with "\\" as the separator the local file "d/a",
\* which the remote listing has as well, has been removed by the deletion
\* loop.
C36_ListedPathRemoved ==
    \E k \in Removals :
        /\ windows /\ log[k].ok
        /\ Join(localFiles[log[k].at].Path) = <<"d", "a">>
        /\ HasRemoteAt(localFiles[log[k].at])
        /\ remote[<<"d", "a">>].kind = "file"
        /\ local[<<"d", "a">>].kind = "none"

\* ---------------------------------------------------------------- C37
FailedRemovals == {k \in Removals : ~log[k].ok}
\* Local entry j has had its turn in the deletion loop.
HadTurn(j) == spc = "done" \/ (spc = "delete" /\ j < idx)

\* C37: a removal that fails does not end the run: the run goes on with
\* the next local entry and returns no error for it, and every local entry
\* without remote counterpart that has had its turn after (or before) the
\* failure was handed to os.RemoveAll, unless it was gone already when its
\* turn came.
C37_FailedRemovalDoesNotAbort ==
    /\ [](FailedRemovals # {} =>
            /\ syncResult \in {"none", "ok"}
            /\ \A j \in DOMAIN localFiles :
                 (HadTurn(j) /\ ~HasRemoteAt(localFiles[j])) =>
                    \/ \E k \in Removals : log[k].at = j
                    \/ local[Join(localFiles[j].Path)].kind = "none")
    /\ [](spc = "done" /\ FailedRemovals # {} => syncResult = "ok")
    /\ [][(spc = "delete" /\ idx < Len(localFiles)) =>
             (spc' = "delete" /\ idx' = idx + 1)]_vars

\* A removal failed and a later local-only entry was removed all the same.
C37_RemovedAfterFailure ==
    \E k \in FailedRemovals : \E m \in Removals :
        /\ m > k /\ log[m].ok
        /\ ~HasRemoteAt(localFiles[log[m].at])
        /\ ~IsUnder(Join(localFiles[log[m].at].Path), Join(localFiles[log[k].at].Path))

\* ---------------------------------------------------------------- C38
\* The content bytes GetFile has received: what getFileSequential has
\* taken from its connection, or the sum of what the block tasks have.
RECURSIVE ReceivedByTasks(_)
ReceivedByTasks(bs) ==
    IF bs = {} THEN 0
    ELSE LET b == CHOOSE x \in bs : TRUE
         IN (GetFileBlockRange(resp.Size, b).len - tasks[b].remaining)
            + ReceivedByTasks(bs \ {b})
Received ==
    IF strategy = "sequential" THEN dstPos
    ELSE ReceivedByTasks({b \in BlockIds : tasks[b].pc \in {"recv", "done"}})

\* C38: GetFile renames the temporary file onto the destination only when
\* it has received as many content bytes as the FileInfo declares: a
\* stream that ends early is never published, with or without an MD5 in
\* the FileInfo.
C38_PublishOnlyFullLength ==
    (op = "get" /\ published # NoFile) => Received = resp.Size

\* C38, the failing case: the FileInfo had no MD5, the stream ended before
\* the declared size, and GetFile has published a file shorter than
\* declared and returned ok.
C38_ShortStreamPublished ==
    /\ op = "get" /\ result = "ok" /\ advertised = NoHash
    /\ strategy = "sequential"
    /\ Received < resp.Size
    /\ published # NoFile /\ Len(published) < resp.Size
    /\ fs["dest"] = published

\* ---------------------------------------------------------------- C39
\* C39: under every interleaving of StartServer, StopServer and the
\* background goroutines, a StartServer that finds an instance registered
\* returns failure and leaves that instance registered, and the failure
\* handler of the goroutine started for an instance clears the global only
\* while it holds that instance (or nil), never an instance a later
\* StartServer registered.
C39_SingletonConsistent ==
    /\ [][(serverInstance # 0 /\ Len(startReturns') > Len(startReturns)) =>
             (startReturns'[Len(startReturns')] = 1
              /\ serverInstance' = serverInstance)]_vars
    /\ [][\A g \in InstanceIds :
             (bg[g].pc = "failed" /\ bg'[g].pc = "done") =>
                 serverInstance \in {0, g}]_vars

\* C39, the failing case: the goroutine started for instance 1 has cleared
\* the global while it held instance 2, whose Start is listening; instance
\* 2 runs unregistered.
C39_LaterInstanceCleared ==
    /\ bg[1].pc = "done" /\ bg[1].cleared = 2
    /\ bg[2].pc = "serving" /\ 2 \in listening
    /\ serverInstance = 0 /\ ~crashed

====
